---- MODULE Spec2Model ----
(***************************************************************************)
(* A model of the audit orchestration pipeline of nextjs-app-auditor:      *)
(* the file sampler (lib/ai/tools/sampling.ts), the analyzer fan-out and   *)
(* result synthesis of runFullAudit (lib/ai/agents/coordinator.ts), the    *)
(* streamed ingest route (app/api/ingest/route.ts), the progress metric    *)
(* (lib/ai/tools/streaming.ts) and the scan cache (lib/ai/tools/cache).    *)
(***************************************************************************)
EXTENDS Integers, Sequences, FiniteSets, TLC

VARIABLES
    \* ---- sampler (intelligentSampling as a function under test)
    files,        \* the input file list: a sequence of file records
    heuristics,   \* the set of paths referenced by the RuleHit list
    maxFiles,     \* the cap
    selected,     \* the list returned by intelligentSampling
    spc,          \* "input" before the call, "done" after it
    \* ---- one streamed scan request (POST /api/ingest?stream=true)
    rpc,          \* where the route's background task is
    commitSha,    \* what getCommitSha resolved: NoSha or a revision
    forceRefresh, \* the refresh=true query flag
    reqProvider,  \* the provider of the request
    reqModel,     \* providerModel: modelInput || default model of the provider
    writer,       \* the SSE writer: "open" or "closed"; "none" when the request is
                  \* not streamed
    sse,          \* the events written to the response stream, in order
    rejectedWrites, \* writes the closed writer refused
    delivered,    \* the report carried by the 'result' event, or NoResult
    response,     \* the JSON response of a request that is not streamed, or NoResponse
    \* ---- one run of runFullAudit
    apc,          \* where runFullAudit is
    prevProvider, \* the provider saved on entry
    activeProvider, \* the process-wide active provider (lib/ai/provider)
    docsSnippets, \* number of Context7 snippets gathered
    agents,       \* per analyzer: its task state, raw output and how it was obtained
    completedAgents,
    overtaken,    \* history: whether an analyzer settled before one listed ahead of it
    join,         \* the Promise.all over the six limited tasks
    suffixes,     \* what Math.random yields in this run, one suffix per issue
    plannerCalls, \* how often codemodAgentPlan was invoked
    issues,       \* the merged issues list
    warnings,     \* the run's warnings list
    result,       \* the ScanResult returned by runFullAudit, or NoResult
    \* ---- the scan cache (prisma store)
    store,        \* the Repo and Scan tables
    now,          \* the clock, in days
    lookup,       \* the last getCachedScan call: its key, its time, the number of
                  \* reports stored before it, and what it returned
    written,      \* history: the reports handed to cacheScanResult that were stored,
                  \* each with its revision and the time of the write
    \* ---- one call of a function under test (normalizeAgentOutput, buildMarkdownReport)
    callArgs,     \* the arguments of the call
    callResult,   \* what the call returned
    cpc,          \* "input" before the call, "done" after it, "off" when unused
    \* ---- runs of runFullAudit that overlap in one process
    runs          \* per run: where it is, its provider, the provider it saved, its
                  \* inference calls issued and settled, and the providers they
                  \* resolved their model with

samplingVars == <<files, heuristics, maxFiles, selected, spc>>
routeVars == <<rpc, commitSha, forceRefresh, reqProvider, reqModel, writer, sse,
              rejectedWrites, delivered, response>>
auditVars == <<apc, prevProvider, activeProvider, docsSnippets, agents, completedAgents, overtaken,
               join, suffixes, plannerCalls, issues, warnings, result>>
cacheVars == <<store, now, lookup, written>>
callVars == <<callArgs, callResult, cpc>>
runVars == <<runs>>

vars == <<samplingVars, routeVars, auditVars, cacheVars, callVars, runVars>>

(***************************************************************************)
(* Bounds of the model.                                                    *)
(***************************************************************************)
MaxFileCount == 3      \* longest input file list of the sampler
MaxCap == 4            \* largest cap handed to the sampler
MaxDegraded == 1       \* most analyzers of one run that do not return a list directly
MaxScans == 2          \* most Scan rows the cache is given
MaxTextLen == 4        \* longest text given to the normalizer under test
MaxClock == 8          \* last day of the clock
TickDays == 4          \* days between two readings of the clock

(***************************************************************************)
(* Generic helpers.                                                        *)
(***************************************************************************)
Range(s) == {s[i] : i \in 1..Len(s)}

Min(a, b) == IF a < b THEN a ELSE b

SeqsUpTo(S, n) == UNION {[1..k -> S] : k \in 0..n}

\* Array.prototype.slice(0, n) for n >= 0
SliceTo(s, n) == SubSeq(s, 1, Min(Len(s), n))

(***************************************************************************)
(* lib/ai/tools/sampling.ts                                                *)
(*                                                                         *)
(* A file's path enters the sampler only through the glob groups it        *)
(* matches, so an input file is a path id together with the groups its     *)
(* path matches, its binary flag, whether it carries content and its size. *)
(* The kinds below are paths that exist: the groups named are the ones     *)
(* micromatch reports for them.                                            *)
(***************************************************************************)
FileKinds ==
    { [kind |-> "plain",    globs |-> {},                                  isBinary |-> FALSE, hasContent |-> TRUE,  sizeKb |-> 1],   \* README.md
      [kind |-> "route",    globs |-> {"api-route"},                       isBinary |-> FALSE, hasContent |-> TRUE,  sizeKb |-> 1],   \* app/api/x/route.ts
      [kind |-> "mw",       globs |-> {"middleware"},                      isBinary |-> FALSE, hasContent |-> TRUE,  sizeKb |-> 1],   \* src/middleware.ts
      [kind |-> "apimw",    globs |-> {"api-route", "middleware"},         isBinary |-> FALSE, hasContent |-> TRUE,  sizeKb |-> 1],   \* pages/api/middleware.ts
      [kind |-> "authpage", globs |-> {"page-component", "auth-security"}, isBinary |-> FALSE, hasContent |-> TRUE,  sizeKb |-> 1],   \* app/login/page.tsx
      [kind |-> "big",      globs |-> {},                                  isBinary |-> FALSE, hasContent |-> TRUE,  sizeKb |-> 30],  \* a 30 kB data.json
      [kind |-> "binary",   globs |-> {},                                  isBinary |-> TRUE,  hasContent |-> FALSE, sizeKb |-> 1] }  \* public/logo.png

\* the i-th file of an input list built from kinds: its path is its position
FileOf(k, i) == [path |-> i, globs |-> k.globs, isBinary |-> k.isBinary,
                 hasContent |-> k.hasContent, sizeKb |-> k.sizeKb]

\* the glob groups of the scoring loop, in the order the code tests them,
\* with the points each adds
ScoreRules ==
    << [tag |-> "api-route",      points |-> 8],
       [tag |-> "page-component", points |-> 7],
       [tag |-> "layout",         points |-> 6],
       [tag |-> "auth-security",  points |-> 9],
       [tag |-> "data-access",    points |-> 7],
       [tag |-> "middleware",     points |-> 8],
       [tag |-> "config",         points |-> 5] >>

LateScoreRules ==
    << [tag |-> "lib-util",  points |-> 4],
       [tag |-> "component", points |-> 3] >>

\* Math.min(5, Math.floor(sizeKb / 10)) when sizeKb > 10, else no bonus
sizeBonus(f) == IF f.sizeKb > 10 THEN Min(5, f.sizeKb \div 10) ELSE 0

RECURSIVE RuleTags(_, _, _)
RuleTags(rules, f, i) ==
    IF i > Len(rules) THEN <<>>
    ELSE (IF rules[i].tag \in f.globs THEN <<rules[i].tag>> ELSE <<>>)
         \o RuleTags(rules, f, i + 1)

RECURSIVE RulePoints(_, _, _)
RulePoints(rules, f, i) ==
    IF i > Len(rules) THEN 0
    ELSE (IF rules[i].tag \in f.globs THEN rules[i].points ELSE 0)
         + RulePoints(rules, f, i + 1)

\* the reason tags pushed for one file, in push order
reasons(f, flaggedFiles) ==
    (IF f.path \in flaggedFiles THEN <<"heuristic-hit">> ELSE <<>>)
    \o RuleTags(ScoreRules, f, 1)
    \o (IF sizeBonus(f) > 0 THEN <<"large-file">> ELSE <<>>)
    \o RuleTags(LateScoreRules, f, 1)

priority(f, flaggedFiles) ==
    (IF f.path \in flaggedFiles THEN 10 ELSE 0)
    + RulePoints(ScoreRules, f, 1)
    + sizeBonus(f)
    + RulePoints(LateScoreRules, f, 1)

\* reasons.join(',') || 'standard', kept as the list of its comma-separated parts
ScoredFile(f, flaggedFiles) ==
    [path |-> f.path,
     priority |-> priority(f, flaggedFiles),
     reason |-> IF reasons(f, flaggedFiles) = <<>> THEN <<"standard">>
                ELSE reasons(f, flaggedFiles)]

\* the scoring loop: binary and content-less files are skipped
RECURSIVE scoreAll(_, _, _)
scoreAll(fs, flaggedFiles, i) ==
    IF i > Len(fs) THEN <<>>
    ELSE (IF fs[i].isBinary \/ ~fs[i].hasContent THEN <<>>
          ELSE <<ScoredFile(fs[i], flaggedFiles)>>)
         \o scoreAll(fs, flaggedFiles, i + 1)

\* scored.sort((a, b) => b.priority - a.priority): a stable sort, descending
RECURSIVE InsertByPriority(_, _)
InsertByPriority(sorted, x) ==
    IF sorted = <<>> THEN <<x>>
    ELSE IF Head(sorted).priority >= x.priority
         THEN <<Head(sorted)>> \o InsertByPriority(Tail(sorted), x)
         ELSE <<x>> \o sorted

RECURSIVE sortByPriority(_)
sortByPriority(s) ==
    IF s = <<>> THEN <<>>
    ELSE InsertByPriority(sortByPriority(SubSeq(s, 1, Len(s) - 1)), s[Len(s)])

\* typeQuotas[primaryType] ?? 0; Unbounded stands for Infinity
Unbounded == -1

typeQuotas(primaryType, cap) ==
    CASE primaryType = "api-route"      -> (cap * 25) \div 100
      [] primaryType = "page-component" -> (cap * 20) \div 100
      [] primaryType = "auth-security"  -> (cap * 15) \div 100
      [] primaryType = "data-access"    -> (cap * 10) \div 100
      [] primaryType = "middleware"     -> 2
      [] primaryType = "layout"         -> 2
      [] primaryType = "heuristic-hit"  -> Unbounded
      [] OTHER                          -> 0

\* String.prototype.includes on the joined reason: a tag is found when it is a
\* substring of one of the parts ('component' also occurs inside
\* 'page-component'; no other tag is a substring of another)
reasonIncludes(reason, t) ==
    \E i \in 1..Len(reason) :
        reason[i] = t \/ (t = "component" /\ reason[i] = "page-component")

\* selected.filter(f => f.reason.includes(primaryType)).length
currentCount(sel, primaryType) ==
    Cardinality({i \in 1..Len(sel) : reasonIncludes(sel[i].reason, primaryType)})

underQuota(count, quota) == quota = Unbounded \/ count < quota

\* first pass: fill quotas for high-priority types
RECURSIVE firstPass(_, _, _, _)
firstPass(scored, sel, cap, i) ==
    IF i > Len(scored) \/ Len(sel) >= cap THEN sel
    ELSE LET primaryType == scored[i].reason[1]
             quota == typeQuotas(primaryType, cap)
         IN  firstPass(scored,
                       IF underQuota(currentCount(sel, primaryType), quota)
                       THEN Append(sel, scored[i]) ELSE sel,
                       cap, i + 1)

\* second pass: fill remaining slots with highest priority files
RECURSIVE secondPass(_, _, _, _)
secondPass(scored, sel, cap, i) ==
    IF i > Len(scored) \/ Len(sel) >= cap THEN sel
    ELSE secondPass(scored,
                    IF scored[i] \notin Range(sel) THEN Append(sel, scored[i]) ELSE sel,
                    cap, i + 1)

\* a sampler that honours the unbounded heuristic-hit quota past the cap
intelligentSamplingKeepFlagged(fs, flaggedFiles, cap) ==
    LET scored == sortByPriority(scoreAll(fs, flaggedFiles, 1))
        flagged == SelectSeq(scored, LAMBDA f : f.reason[1] = "heuristic-hit")
        rest == SelectSeq(scored, LAMBDA f : f.reason[1] # "heuristic-hit")
    IN  flagged \o SliceTo(rest, IF cap > Len(flagged) THEN cap - Len(flagged) ELSE 0)

intelligentSampling(fs, flaggedFiles, cap) ==
    LET scored == sortByPriority(scoreAll(fs, flaggedFiles, 1))
        pass1 == firstPass(scored, <<>>, cap, 1)
        pass2 == secondPass(scored, pass1, cap, 1)
    IN  SliceTo(pass2, cap)

(***************************************************************************)
(* Analyzer output values.                                                 *)
(*                                                                         *)
(* A text is a sequence of tokens: "[" "]" "," are themselves, "a" and "b" *)
(* are JSON object literals ({"title":"A","severity":"high"} and           *)
(* {"title":"B"}), " " is white space, "_" is a character that trim strips *)
(* and JSON does not take for white space (U+00A0, U+FEFF), "x" is a word  *)
(* of prose and "~" is a markdown code fence (``` with its optional json   *)
(* tag and newline).                                                       *)
(* A value is what JSON.parse or an analyzer yields: an array of values,   *)
(* an object, or a string.                                                 *)
(***************************************************************************)
Tokens == {"[", "]", ",", "a", "b", " ", "_", "x", "~"}

None == "none"     \* an absent (undefined) field

NoCodemod == [name |-> None, command |-> None, description |-> None]

Obj(title, severity, issueTitle, codemod) ==
    [kind |-> "object", title |-> title, severity |-> severity,
     issueTitle |-> issueTitle, codemod |-> codemod]

ObjA == Obj("A", "high", None, NoCodemod)
ObjB == Obj("B", None, None, NoCodemod)
Arr(items) == [kind |-> "array", items |-> items]
Str(text) == [kind |-> "string", text |-> text]

\* String.prototype.trim strips WhiteSpace and LineTerminator characters: the
\* white space of JSON (" ") and more, such as U+00A0 and U+FEFF ("_")
TrimChars == {" ", "_"}

RECURSIVE trimLeft(_)
trimLeft(t) == IF t # <<>> /\ Head(t) \in TrimChars THEN trimLeft(Tail(t)) ELSE t

RECURSIVE trimRight(_)
trimRight(t) ==
    IF t # <<>> /\ t[Len(t)] \in TrimChars THEN trimRight(SubSeq(t, 1, Len(t) - 1)) ELSE t

trim(t) == trimRight(trimLeft(t))

RECURSIVE skipWs(_, _)
skipWs(t, i) == IF i <= Len(t) /\ t[i] = " " THEN skipWs(t, i + 1) ELSE i

\* JSON.parse as a recursive descent over the tokens: parseValue reads one value
\* at position i and parseElems the rest of an array after its "[" or a ",".
\* Each yields [ok, val, next]; ok = FALSE is the SyntaxError.
ParseFail == [ok |-> FALSE, val |-> Arr(<<>>), next |-> 0]

RECURSIVE parseValue(_, _)
RECURSIVE parseElems(_, _, _)
parseValue(t, i0) ==
    LET i == skipWs(t, i0) IN
    IF i > Len(t) THEN ParseFail
    ELSE IF t[i] = "a" THEN [ok |-> TRUE, val |-> ObjA, next |-> i + 1]
    ELSE IF t[i] = "b" THEN [ok |-> TRUE, val |-> ObjB, next |-> i + 1]
    ELSE IF t[i] = "[" THEN
        LET j == skipWs(t, i + 1) IN
        IF j <= Len(t) /\ t[j] = "]"
        THEN [ok |-> TRUE, val |-> Arr(<<>>), next |-> j + 1]
        ELSE parseElems(t, i + 1, <<>>)
    ELSE ParseFail

parseElems(t, i, acc) ==
    LET v == parseValue(t, i) IN
    IF ~v.ok THEN ParseFail
    ELSE LET j == skipWs(t, v.next) IN
         IF j > Len(t) THEN ParseFail
         ELSE IF t[j] = "]" THEN [ok |-> TRUE, val |-> Arr(Append(acc, v.val)), next |-> j + 1]
         ELSE IF t[j] = "," THEN parseElems(t, j + 1, Append(acc, v.val))
         ELSE ParseFail

\* JSON.parse(text): one value and nothing but white space after it
jsonParse(t) ==
    LET v == parseValue(t, 1) IN
    IF v.ok /\ skipWs(t, v.next) > Len(t) THEN [ok |-> TRUE, val |-> v.val]
    ELSE [ok |-> FALSE, val |-> Arr(<<>>)]

\* indexOf / lastIndexOf, 1-based, 0 when absent
indexOf(t, c) ==
    IF \E i \in 1..Len(t) : t[i] = c
    THEN CHOOSE i \in 1..Len(t) : t[i] = c /\ \A j \in 1..(i - 1) : t[j] # c
    ELSE 0

lastIndexOf(t, c) ==
    IF \E i \in 1..Len(t) : t[i] = c
    THEN CHOOSE i \in 1..Len(t) : t[i] = c /\ \A j \in (i + 1)..Len(t) : t[j] # c
    ELSE 0

(***************************************************************************)
(* coordinator.ts: normalizeAgentOutput(agent, raw), which appends to the  *)
(* run's warnings list.  The result is [list, warnings]: the array it      *)
(* returns and the warnings list afterwards.  A warning is kept as the     *)
(* analyzer named at its front and the kind of its message.                *)
(***************************************************************************)
Warning(agent, what) == [agent |-> agent, what |-> what]

\* an attempts list without the slice
attemptsRawOnly(trimmed) == <<[label |-> "raw", text |-> trimmed]>>

\* the attempts list: the trimmed text, then its slice from the first "[" to
\* the last "]" when there is one and it differs from the trimmed text
attempts(trimmed) ==
    LET start == indexOf(trimmed, "[")
        end == lastIndexOf(trimmed, "]")
        slice == SubSeq(trimmed, start, end)
    IN  <<[label |-> "raw", text |-> trimmed]>>
        \o (IF start # 0 /\ end # 0 /\ end > start /\ slice # trimmed
            THEN <<[label |-> "array-slice", text |-> slice]>> ELSE <<>>)

\* a loop over the attempts that ends without a word when none parses
tryAttemptsSilent(agent, atts, i, warns) ==
    IF \E k \in i..Len(atts) : jsonParse(atts[k].text).ok
    THEN [list |-> <<>>, warnings |-> Append(warns, Warning(agent, "parsed JSON was not an array"))]
    ELSE [list |-> <<>>, warnings |-> warns]

\* the loop over the attempts
RECURSIVE tryAttempts(_, _, _, _)
tryAttempts(agent, atts, i, warns) ==
    IF i > Len(atts)
    THEN [list |-> <<>>, warnings |-> Append(warns, Warning(agent, "failed to parse JSON"))]
    ELSE LET parsed == jsonParse(atts[i].text) IN
         IF ~parsed.ok THEN tryAttempts(agent, atts, i + 1, warns)
         ELSE IF parsed.val.kind = "array"
              THEN [list |-> parsed.val.items,
                    warnings |-> IF atts[i].label # "raw"
                                 THEN Append(warns, Warning(agent, "parsed after array-slice extraction"))
                                 ELSE warns]
              ELSE [list |-> <<>>,
                    warnings |-> Append(warns, Warning(agent, "parsed JSON was not an array"))]

\* a normalizer that parses only text
normalizeAgentOutputTextOnly(agent, raw, warns) ==
    IF raw.kind # "string" \/ trim(raw.text) = <<>>
    THEN [list |-> <<>>, warnings |-> Append(warns, Warning(agent, "empty response from model"))]
    ELSE tryAttempts(agent, attempts(trim(raw.text)), 1, warns)

normalizeAgentOutput(agent, raw, warns) ==
    IF raw.kind = "array" THEN [list |-> raw.items, warnings |-> warns]
    ELSE IF raw.kind # "string" \/ trim(raw.text) = <<>>
    THEN [list |-> <<>>, warnings |-> Append(warns, Warning(agent, "empty response from model"))]
    ELSE tryAttempts(agent, attempts(trim(raw.text)), 1, warns)

(***************************************************************************)
(* coordinator.ts: the catch branch of agentWrapper.  An analyzer that     *)
(* raised carries err.text (or err.cause.text) or none; a text that parses *)
(* after the fence is removed becomes the analyzer's output.               *)
(***************************************************************************)
NoText == <<>>

\* cleaned = text.trim(), and when it starts with a fence, the text between
\* the opening fence and a closing one, trimmed again
unwrapMarkdown(text) ==
    LET cleaned == trim(text) IN
    IF cleaned # <<>> /\ Head(cleaned) = "~"
    THEN LET body == Tail(cleaned) IN
         trim(IF body # <<>> /\ body[Len(body)] = "~"
              THEN SubSeq(body, 1, Len(body) - 1) ELSE body)
    ELSE cleaned

\* [recovered, value]: whether the catch branch returns a value instead of
\* rethrowing, and the value
recoverFromError(text) ==
    IF text = NoText THEN [recovered |-> FALSE, value |-> Arr(<<>>)]
    ELSE LET parsed == jsonParse(unwrapMarkdown(text)) IN
         [recovered |-> parsed.ok, value |-> parsed.val]

(***************************************************************************)
(* coordinator.ts: merging the six normalized outputs into the issues list *)
(***************************************************************************)
\* the analyzers in the order of the Promise.all array and of the merge loop,
\* named by the issue type the merge loop gives them
AgentTypes == <<"ux", "backend", "db", "security", "performance", "lint">>

AgentCount == 6

Severities == {"critical", "high", "medium", "low", "info"}

\* (it.severity ?? 'medium'), kept only when it is one of the enum
severityOf(it) ==
    IF it.kind = "object" /\ it.severity \in Severities THEN it.severity ELSE "medium"

\* it.title ?? 'Issue'
titleOf(it) ==
    IF it.kind = "object" /\ it.title # None THEN it.title ELSE "Issue"

\* one pushed issue; suffix is what Math.random().toString(36).slice(2, 8) gave
Issue(type, suffix, it) ==
    [id |-> <<type, suffix>>, type |-> type, severity |-> severityOf(it),
     title |-> titleOf(it), docs |-> 0, codemod |-> NoCodemod]

RECURSIVE pushItems(_, _, _, _, _)
pushItems(type, list, i, acc, rnd) ==
    IF i > Len(list) THEN acc
    ELSE pushItems(type, list, i + 1,
                   Append(acc, Issue(type, rnd[Len(acc) + 1], list[i])), rnd)

\* the merge loop over [type, raw] pairs: [issues, warnings] after agent k..6
RECURSIVE mergeFrom(_, _, _, _, _)
mergeFrom(raws, k, acc, warns, rnd) ==
    IF k > AgentCount THEN [issues |-> acc, warnings |-> warns]
    ELSE LET n == normalizeAgentOutput(AgentTypes[k], raws[k], warns) IN
         mergeFrom(raws, k + 1, pushItems(AgentTypes[k], n.list, 1, acc, rnd),
                   n.warnings, rnd)

\* a merge that lists the findings last pushed first
mergeIssuesReversed(raws, rnd) ==
    LET m == mergeFrom(raws, 1, <<>>, <<>>, rnd)
    IN  [m EXCEPT !.issues = [i \in 1..Len(m.issues) |-> m.issues[Len(m.issues) + 1 - i]]]

mergeIssues(raws, rnd) == mergeFrom(raws, 1, <<>>, <<>>, rnd)

\* attach up to three Context7 references to every issue when any were gathered
attachDocs(iss, snippets) ==
    IF snippets > 0
    THEN [i \in 1..Len(iss) |-> [iss[i] EXCEPT !.docs = @ + Min(snippets, 3)]]
    ELSE iss

\* a search that gives the last issue of the title, 0 when none
findLastIndexByTitle(iss, title) ==
    IF \E i \in 1..Len(iss) : iss[i].title = title
    THEN CHOOSE i \in 1..Len(iss) :
             iss[i].title = title /\ \A j \in (i + 1)..Len(iss) : iss[j].title # title
    ELSE 0

\* issues.findIndex(i => i.title === title), 1-based, 0 when none
findIndexByTitle(iss, title) ==
    IF \E i \in 1..Len(iss) : iss[i].title = title
    THEN CHOOSE i \in 1..Len(iss) :
             iss[i].title = title /\ \A j \in 1..(i - 1) : iss[j].title # title
    ELSE 0

\* the loop over the planner's entries
RECURSIVE applyCodemods(_, _, _)
applyCodemods(iss, codemods, k) ==
    IF k > Len(codemods) THEN iss
    ELSE LET cm == codemods[k]
             usable == cm.kind = "object" /\ cm.issueTitle # None /\ cm.codemod # NoCodemod
             idx == IF usable THEN findIndexByTitle(iss, cm.issueTitle) ELSE 0
         IN  applyCodemods(IF idx > 0 THEN [iss EXCEPT ![idx].codemod = cm.codemod] ELSE iss,
                           codemods, k + 1)

\* a synthetic finding put at the head of the list
withWarningsIssueFirst(iss, warns, rnd) ==
    IF Len(warns) > 0
    THEN <<[id |-> <<"general", rnd[Len(iss) + 1]>>, type |-> "general",
            severity |-> "low", title |-> "Agent response warnings",
            docs |-> 0, codemod |-> NoCodemod]>> \o iss
    ELSE iss

\* the synthetic finding pushed when warnings.length > 0
withWarningsIssue(iss, warns, rnd) ==
    IF Len(warns) > 0
    THEN Append(iss, [id |-> <<"general", rnd[Len(iss) + 1]>>, type |-> "general",
                      severity |-> "low", title |-> "Agent response warnings",
                      docs |-> 0, codemod |-> NoCodemod])
    ELSE iss

(***************************************************************************)
(* lib/ai/report.ts: buildMarkdownReport, as the header fields, the        *)
(* warnings block and the issues in the order they are printed.            *)
(***************************************************************************)
TypeOrder == <<"security", "performance", "backend", "ux", "db", "lint", "general">>

severityRank(sev) ==
    CASE sev = "critical" -> 5
      [] sev = "high"     -> 4
      [] sev = "medium"   -> 3
      [] sev = "low"      -> 2
      [] sev = "info"     -> 1
      [] OTHER            -> 0

\* a sort that puts an issue before the earlier ones of its severity
RECURSIVE insertBySeverityUnstable(_, _)
insertBySeverityUnstable(sorted, x) ==
    IF sorted = <<>> THEN <<x>>
    ELSE IF severityRank(Head(sorted).severity) > severityRank(x.severity)
         THEN <<Head(sorted)>> \o insertBySeverityUnstable(Tail(sorted), x)
         ELSE <<x>> \o sorted

\* list.sort((a, b) => severityRank(b.severity) - severityRank(a.severity)): stable
RECURSIVE insertBySeverity(_, _)
insertBySeverity(sorted, x) ==
    IF sorted = <<>> THEN <<x>>
    ELSE IF severityRank(Head(sorted).severity) >= severityRank(x.severity)
         THEN <<Head(sorted)>> \o insertBySeverity(Tail(sorted), x)
         ELSE <<x>> \o sorted

RECURSIVE sortBySeverity(_)
sortBySeverity(s) ==
    IF s = <<>> THEN <<>>
    ELSE insertBySeverity(sortBySeverity(SubSeq(s, 1, Len(s) - 1)), s[Len(s)])

RECURSIVE renderGroups(_, _)
renderGroups(iss, k) ==
    IF k > Len(TypeOrder) THEN <<>>
    ELSE sortBySeverity(SelectSeq(iss, LAMBDA i : i.type = TypeOrder[k]))
         \o renderGroups(iss, k + 1)

buildMarkdownReport(res) ==
    [provider |-> res.provider, model |-> res.model, stats |-> res.stats,
     warnings |-> res.warnings,
     findings |-> renderGroups(res.issues, 1)]

\* the 'markdown: ""' of a result that was not rendered
EmptyMarkdown == <<>>

(***************************************************************************)
(* lib/ai/provider (lib/db/index.ts:64-155)                                *)
(***************************************************************************)
Providers == {"vercel", "openrouter"}

getDefaultModelForProvider(p) ==
    IF p = "openrouter" THEN "z-ai/glm-4.6" ELSE "moonshotai/kimi-k2-0905"

\* the ScanResult built at the end of runFullAudit
buildResult(repo, iss, warns, provider) ==
    LET res == [repo |-> repo, issues |-> iss, warnings |-> warns, provider |-> provider,
                model |-> getDefaultModelForProvider(provider),
                stats |-> [agents |-> 6], markdown |-> EmptyMarkdown]
    IN  [res EXCEPT !.markdown = buildMarkdownReport(res)]

NoResult == [kind |-> "none"]

(***************************************************************************)
(* lib/ai/tools/cache (src/unnamed/part_001): the Repo and Scan tables and *)
(* the two cache operations.  store.repos is the Repo table (one row per   *)
(* owner and name), store.scans the Scan table in insertion order; a scan  *)
(* row holds its Issue rows.  Row ids are the database's own (cuid).       *)
(***************************************************************************)
NoSha == "none"

MaxAgeDays == 7     \* options.maxAge ?? 7 * 24 * 60 * 60 * 1000

EmptyStore == [repos |-> {}, scans |-> <<>>]

Key(owner, name, sha, provider, model) ==
    [owner |-> owner, name |-> name, sha |-> sha, provider |-> provider, model |-> model]

\* prisma.repo.upsert on the unique (owner, name)
upsertRepo(repos, repo) ==
    {r \in repos : ~(r.owner = repo.owner /\ r.name = repo.repo)}
    \cup {[owner |-> repo.owner, name |-> repo.repo, ref |-> repo.ref]}

\* the Issue row created for one issue: the data of issues.create
issueRow(issue, scanNo, k) ==
    [id |-> <<"cuid", scanNo, k>>, type |-> issue.type, severity |-> issue.severity,
     title |-> issue.title, codemodName |-> issue.codemod.name,
     codemodCommand |-> issue.codemod.command]

\* the Scan row created by prisma.scan.create; createdAt defaults to now()
scanRow(res, sha, scanNo, at) ==
    [owner |-> res.repo.owner, name |-> res.repo.repo, commitSha |-> sha,
     provider |-> res.provider, model |-> res.model, stats |-> res.stats,
     createdAt |-> at,
     issues |-> [k \in 1..Len(res.issues) |-> issueRow(res.issues[k], scanNo, k)]]

\* a cacheScanResult that stores whether or not there is a revision
cacheScanResultAlways(st, res, sha, at) ==
    [repos |-> upsertRepo(st.repos, res.repo),
     scans |-> Append(st.scans, scanRow(res, sha, Len(st.scans) + 1, at))]

\* the store after a cacheScanResult(result, commitSha) whose writes succeed
cacheScanResult(st, res, sha, at) ==
    IF sha = NoSha THEN st
    ELSE [repos |-> upsertRepo(st.repos, res.repo),
          scans |-> Append(st.scans, scanRow(res, sha, Len(st.scans) + 1, at))]

\* the issue rebuilt from an Issue row
issueFromRow(row) ==
    [id |-> row.id, type |-> row.type, severity |-> row.severity, title |-> row.title,
     docs |-> 0,
     codemod |-> IF row.codemodName # None
                 THEN [name |-> row.codemodName, command |-> row.codemodCommand,
                       description |-> row.codemodCommand]
                 ELSE NoCodemod]

\* a where clause that leaves the model out
scanMatchesAnyModel(row, key, at) ==
    /\ row.owner = key.owner /\ row.name = key.name
    /\ row.commitSha = key.sha
    /\ row.provider = key.provider
    /\ row.createdAt >= at - MaxAgeDays

\* the where clause of prisma.scan.findFirst
scanMatches(row, key, at) ==
    /\ row.owner = key.owner /\ row.name = key.name
    /\ row.commitSha = key.sha
    /\ row.provider = key.provider
    /\ row.model = key.model
    /\ row.createdAt >= at - MaxAgeDays

\* a findFirst that orders by createdAt asc: the oldest match
findFirstScanOldest(scans, key, at) ==
    LET hits == {i \in 1..Len(scans) : scanMatches(scans[i], key, at)} IN
    IF hits = {} THEN 0
    ELSE CHOOSE i \in hits : \A j \in hits : scans[i].createdAt <= scans[j].createdAt

\* orderBy createdAt desc, first row: the newest match; of rows created on the
\* same day the one inserted last is the newest.  0 when no row matches.
findFirstScan(scans, key, at) ==
    LET hits == {i \in 1..Len(scans) : scanMatches(scans[i], key, at)} IN
    IF hits = {} THEN 0
    ELSE CHOOSE i \in hits :
             \A j \in hits : scans[j].createdAt < scans[i].createdAt
                             \/ (scans[j].createdAt = scans[i].createdAt /\ j <= i)

\* what getCachedScan returns when its reads succeed
getCachedScan(st, key, at) ==
    IF key.sha = NoSha THEN NoResult
    ELSE IF ~\E r \in st.repos : r.owner = key.owner /\ r.name = key.name THEN NoResult
    ELSE LET i == findFirstScan(st.scans, key, at) IN
         IF i = 0 THEN NoResult
         ELSE LET scan == st.scans[i]
                  rr == CHOOSE r \in st.repos : r.owner = key.owner /\ r.name = key.name
              IN  [repo |-> [owner |-> rr.owner, repo |-> rr.name, ref |-> rr.ref],
                   issues |-> [k \in 1..Len(scan.issues) |-> issueFromRow(scan.issues[k])],
                   warnings |-> <<>>,
                   provider |-> scan.provider,
                   model |-> scan.model,
                   stats |-> scan.stats,
                   markdown |-> EmptyMarkdown]

\* how the two writes of cacheScanResult may end; a failure is caught and logged
WriteOutcomes == {"ok", "upsert fails", "create fails"}

storeAfterWrite(st, res, sha, at, w) ==
    CASE w = "ok" -> cacheScanResult(st, res, sha, at)
      [] w = "upsert fails" -> st
      [] w = "create fails" ->
             IF sha = NoSha THEN st
             ELSE [st EXCEPT !.repos = upsertRepo(st.repos, res.repo)]

writtenAfterWrite(wr, res, sha, at, w) ==
    IF w = "ok" /\ sha # NoSha
    THEN Append(wr, [report |-> res, sha |-> sha, at |-> at])
    ELSE wr

NoKey == Key(None, None, NoSha, None, None)

NoLookup == [key |-> NoKey, at |-> 0, seen |-> 0, readOk |-> FALSE, result |-> NoResult]

(***************************************************************************)
(* lib/ai/tools/streaming.ts: the progress metric.  Progress values are    *)
(* kept in sixths of a percent, so that (completedAgents / 6) * 100 is     *)
(* exact: calculateProgress(stage, sixths) is 6 times what the code        *)
(* computes for substageProgress = sixths / 6 * 100.                       *)
(***************************************************************************)
Sixths == 6

stageWeights(stage) ==
    CASE stage = "initializing" -> [start |-> 0,   weight |-> 5]
      [] stage = "downloading"  -> [start |-> 5,   weight |-> 10]
      [] stage = "extracting"   -> [start |-> 15,  weight |-> 10]
      [] stage = "sampling"     -> [start |-> 25,  weight |-> 5]
      [] stage = "parsing"      -> [start |-> 30,  weight |-> 10]
      [] stage = "heuristics"   -> [start |-> 40,  weight |-> 5]
      [] stage = "analyzing"    -> [start |-> 45,  weight |-> 40]
      [] stage = "synthesizing" -> [start |-> 85,  weight |-> 10]
      [] stage = "complete"     -> [start |-> 100, weight |-> 0]
      [] OTHER                  -> [start |-> 0,   weight |-> 0]

calculateProgress(stage, sixths) ==
    Min(100 * Sixths,
        stageWeights(stage).start * Sixths + stageWeights(stage).weight * sixths)

\* an event of the response stream
Ev(type, stage, progress) == [type |-> type, stage |-> stage, progress |-> progress]

\* ProgressStream.stage / complete, as the update handed to the subscriber
stageEv(stage, progress) == Ev("progress", stage, progress)
completeEv == Ev("progress", "complete", 100 * Sixths)

\* route.ts sendEvent: writer.write(...).catch(console.error); a writer that
\* was closed rejects the write and the event is lost
sendEventUnchecked(log, w, evs) == log \o evs

sendEvent(log, w, evs) == IF w = "open" THEN log \o evs ELSE log

refused(w, evs) == IF w = "closed" THEN Len(evs) ELSE 0

\* writer.close(); a request that is not streamed has no writer
closeWriter(w) == IF w = "none" THEN "none" ELSE "closed"

(***************************************************************************)
(* p-limit: limit = pLimit(3) runs the queued tasks in the order they were *)
(* handed over, at most 3 at a time; a task that settles frees its slot.   *)
(***************************************************************************)
Concurrency == 3

running(ag) == {k \in 1..AgentCount : ag[k].st = "running"}
queued(ag) == {k \in 1..AgentCount : ag[k].st = "queued"}
settled(ag) == {k \in 1..AgentCount : ag[k].st \in {"fulfilled", "rejected"}}

\* p-limit with no limit: every queued task is started
startQueuedNoLimit(ag) ==
    [k \in 1..AgentCount |-> IF ag[k].st = "queued" THEN [ag[k] EXCEPT !.st = "running"]
                             ELSE ag[k]]

\* start queued tasks, oldest first, while fewer than Concurrency are running
RECURSIVE startQueued(_)
startQueued(ag) ==
    IF queued(ag) = {} \/ Cardinality(running(ag)) >= Concurrency THEN ag
    ELSE LET k == CHOOSE q \in queued(ag) : \A r \in queued(ag) : q <= r
         IN  startQueued([ag EXCEPT ![k].st = "running"])

NoRaw == [kind |-> "none"]

QueuedAgent == [st |-> "queued", raw |-> NoRaw, how |-> None]

\* a join that lets the run go on as soon as one task is fulfilled
joinAfterEager(j, ag) ==
    IF j # "pending" THEN j
    ELSE IF \E k \in 1..AgentCount : ag[k].st = "rejected" THEN "rejected"
    ELSE IF \E k \in 1..AgentCount : ag[k].st = "fulfilled" THEN "resolved"
    ELSE "pending"

\* Promise.all over the six tasks: rejected by the first rejection, resolved
\* when all six are fulfilled
joinAfter(j, ag) ==
    IF j # "pending" THEN j
    ELSE IF \E k \in 1..AgentCount : ag[k].st = "rejected" THEN "rejected"
    ELSE IF \A k \in 1..AgentCount : ag[k].st = "fulfilled" THEN "resolved"
    ELSE "pending"

(***************************************************************************)
(* Values the environment hands to one request.                            *)
(***************************************************************************)
\* the provider a request asks for (the process starts with 'vercel' active)
RequestProviders == {"openrouter"}

\* the repository of the request
Repo == [owner |-> "acme", repo |-> "shop", ref |-> None]

\* what one analyzer invocation may do: return a value, or raise with or
\* without a response text on the error
Returns(raw) == [ret |-> TRUE, raw |-> raw, text |-> NoText]
Raises(text) == [ret |-> FALSE, raw |-> NoRaw, text |-> text]

DirectList == Returns(Arr(<<ObjA>>))

AgentOutcomes ==
    { DirectList,                               \* the issues array of generateObject
      Returns(Arr(<<ObjB, ObjA>>)),             \* an issues array with two findings
      Raises(NoText),                           \* a provider error
      Raises(<<"~", "[", "b", "]", "~">>),      \* a fenced JSON array in err.text
      Raises(<<"~", "a", "~">>),                \* a fenced JSON object in err.text
      Raises(<<"x", "[", "a", "]">>),           \* prose in err.text
      Returns(Str(<<"x", "[", "b", "]", "x">>)) } \* legacy text: an array inside prose

\* a codemod entry of the planner for the issue titled "A"
EntryA == Obj(None, None, "A",
              [name |-> "fix-a", command |-> "npx jscodeshift -t a.ts", description |-> "fixes A"])

PlannerOutcomes ==
    { Returns(Arr(<<>>)), Returns(Arr(<<EntryA>>)), Raises(NoText),
      Returns(Str(<<"x">>)) }                   \* legacy text that is no JSON

\* the suffix sequences Math.random may give a run: all different, or all equal
DrawLen == 2 * AgentCount + 1
Draws == { [k \in 1..DrawLen |-> k], [k \in 1..DrawLen |-> 1] }

\* the report of a run whose analyzers gave raws, that gathered the given
\* number of snippets and whose planner returned plannerRaw
RunReport(raws, snippets, plannerRaw, provider) ==
    LET d == [k \in 1..DrawLen |-> k]
        m == mergeIssues(raws, d)
        n == normalizeAgentOutput("codemod", plannerRaw, m.warnings)
        iss == withWarningsIssue(applyCodemods(attachDocs(m.issues, snippets), n.list, 1),
                                 n.warnings, d)
    IN  buildResult(Repo, iss, n.warnings, provider)

\* a report an earlier run for the same repository has produced
PriorResult(provider) ==
    RunReport([k \in 1..AgentCount |-> Arr(<<ObjA>>)], 0, Arr(<<>>), provider)

\* a report with a warning, references and a codemod
RichResult(provider) ==
    RunReport([k \in 1..AgentCount |->
                  IF k = 1 THEN Str(<<"x", "[", "b", "]", "x">>) ELSE Arr(<<ObjA>>)],
              2, Arr(<<EntryA>>), provider)

(***************************************************************************)
(* Initial values of the parts of the state.                               *)
(***************************************************************************)
SamplingIdle ==
    /\ files = <<>> /\ heuristics = {} /\ maxFiles = 0 /\ selected = <<>> /\ spc = "off"

NoResponse == [status |-> 0]

RouteIdle ==
    /\ rpc = "off" /\ commitSha = NoSha /\ forceRefresh = FALSE
    /\ reqProvider = "vercel" /\ reqModel = getDefaultModelForProvider("vercel")
    /\ writer = "open" /\ sse = <<>> /\ rejectedWrites = 0 /\ delivered = NoResult
    /\ response = NoResponse

AuditIdle ==
    /\ apc = "idle" /\ prevProvider = "vercel" /\ activeProvider = "vercel"
    /\ docsSnippets = 0
    /\ agents = [k \in 1..AgentCount |-> [st |-> "none", raw |-> NoRaw, how |-> None]]
    /\ completedAgents = 0 /\ overtaken = FALSE /\ join = "pending"
    /\ suffixes = [k \in 1..DrawLen |-> k]
    /\ plannerCalls = 0 /\ issues = <<>> /\ warnings = <<>> /\ result = NoResult

CallIdle == callArgs = <<>> /\ callResult = <<>> /\ cpc = "off"

RunsIdle == runs = <<>>

CacheIdle == store = EmptyStore /\ now = 0 /\ lookup = NoLookup /\ written = <<>>

(***************************************************************************)
(* app/api/ingest/route.ts: the background task of a streamed POST.        *)
(***************************************************************************)
\* whether the request asked for a stream (?stream=true)
streaming == writer # "none"

\* the error event: its error field is e.message
ErrorEv(msg) == [type |-> "error", stage |-> "error", progress |-> 0, error |-> msg]

\* Response.json({ error }, { status })
ErrorResponse(status, msg) == [status |-> status, error |-> msg]

\* Response.json({ ok: true, result })
OkResponse(res) == [status |-> 200, ok |-> TRUE, result |-> res]

\* the messages of the errors thrown
InvalidUrl == "Invalid GitHub URL"
TarballRequestFailed == "GitHub tarball request failed: 404"
TarballTooLarge == "Tarball too large"
AnalyzerFailed == "analyzer error"
PlannerFailed == "planner error"

\* a catch that hides the message of the error
RouteCatchOpaque(msg) ==
    /\ sse' = sendEvent(sse, writer, <<ErrorEv("Internal error")>>)
    /\ rejectedWrites' = rejectedWrites + refused(writer, <<ErrorEv("Internal error")>>)
    /\ writer' = closeWriter(writer)
    /\ response' = IF streaming THEN response ELSE ErrorResponse(500, "Internal error")
    /\ rpc' = "closed"

\* the catch block of either handler: the streamed one sends an error event
\* and its finally block closes the writer, the other one answers 500
RouteCatch(msg) ==
    /\ sse' = sendEvent(sse, writer, <<ErrorEv(msg)>>)
    /\ rejectedWrites' = rejectedWrites + refused(writer, <<ErrorEv(msg)>>)
    /\ writer' = closeWriter(writer)
    /\ response' = IF streaming THEN response ELSE ErrorResponse(500, msg)
    /\ rpc' = "closed"

\* req.json() and the URL parsing.  An invalid URL is thrown to the catch
\* by the streamed handler and answered with 400 by the other one.  Then the
\* streamed handler sends its first progress event and asks for the
\* revision, the other one goes on to the download.
ParseRequest ==
    /\ rpc = "request"
    /\ \/ /\ streaming
          /\ RouteCatch(InvalidUrl)
          /\ UNCHANGED <<commitSha, delivered>>
       \/ /\ ~streaming
          /\ response' = ErrorResponse(400, InvalidUrl)
          /\ rpc' = "closed"
          /\ UNCHANGED <<commitSha, writer, sse, rejectedWrites, delivered>>
       \/ /\ sse' = sendEvent(sse, writer, <<stageEv("initializing", 5 * Sixths)>>)
          /\ rpc' = IF streaming THEN "sha" ELSE "download"
          /\ UNCHANGED <<commitSha, writer, rejectedWrites, delivered, response>>
    /\ UNCHANGED <<forceRefresh, reqProvider, reqModel>>
    /\ UNCHANGED <<callVars, samplingVars, runVars, auditVars, cacheVars>>

\* getCommitSha resolves to a revision or to null; it never raises
GetCommitSha ==
    /\ rpc = "sha"
    /\ \E sha \in {NoSha, "sha1"} :
        /\ commitSha' = sha
        /\ IF sha # NoSha /\ ~forceRefresh
           THEN /\ sse' = sendEvent(sse, writer, <<stageEv("initializing", 8 * Sixths)>>)
                /\ rpc' = "cache"
           ELSE /\ sse' = sendEvent(sse, writer,
                                    <<stageEv("downloading", calculateProgress("downloading", 0))>>)
                /\ rpc' = "download"
    /\ UNCHANGED <<forceRefresh, reqProvider, reqModel, writer, rejectedWrites, delivered, response>>
    /\ UNCHANGED <<callVars, samplingVars, runVars, auditVars, cacheVars>>

\* a lookup whose failing read reaches the route's catch
CacheLookupRaising ==
    /\ rpc = "cache"
    /\ lookup' = [key |-> Key(Repo.owner, Repo.repo, commitSha, reqProvider, reqModel),
                  at |-> now, seen |-> Len(written), readOk |-> FALSE, result |-> NoResult]
    /\ RouteCatch("cache read failed")
    /\ UNCHANGED <<commitSha, forceRefresh, reqProvider, reqModel, delivered>>
    /\ UNCHANGED <<callVars, samplingVars, runVars, auditVars, store, now, written>>

\* getCachedScan: a failing read is caught there and gives null
CacheLookup ==
    /\ rpc = "cache"
    /\ \E readOk \in BOOLEAN :
        LET key == Key(Repo.owner, Repo.repo, commitSha, reqProvider, reqModel)
            cached == IF readOk THEN getCachedScan(store, key, now) ELSE NoResult
        IN  /\ lookup' = [key |-> key, at |-> now, seen |-> Len(written), readOk |-> readOk, result |-> cached]
            /\ IF cached # NoResult
               THEN /\ sse' = sendEvent(sse, writer, <<completeEv, Ev("result", "cache", 0)>>)
                    /\ delivered' = cached
                    /\ writer' = "closed"
                    /\ rpc' = "closed"
               ELSE /\ sse' = sendEvent(sse, writer,
                            << stageEv("initializing", 10 * Sixths),
                               stageEv("downloading", calculateProgress("downloading", 0)) >>)
                    /\ rpc' = "download"
                    /\ UNCHANGED <<delivered, writer>>
    /\ UNCHANGED <<commitSha, forceRefresh, reqProvider, reqModel, rejectedWrites, response>>
    /\ UNCHANGED <<callVars, samplingVars, runVars, auditVars, store, now, written>>

\* downloadRepoTarball: a status other than 200 raises
Download ==
    /\ rpc = "download"
    /\ \/ /\ RouteCatch(TarballRequestFailed)
       \/ /\ sse' = sendEvent(sse, writer,
                              <<stageEv("extracting", calculateProgress("extracting", 0))>>)
          /\ rpc' = "extract"
          /\ UNCHANGED <<writer, rejectedWrites, response>>
    /\ UNCHANGED <<commitSha, forceRefresh, reqProvider, reqModel, delivered>>
    /\ UNCHANGED <<callVars, samplingVars, runVars, auditVars, cacheVars>>

\* the events runFullAudit emits from its entry to its first await
AuditEntryEvents ==
    << stageEv("initializing", 5 * Sixths),
       stageEv("heuristics", calculateProgress("heuristics", 0)),
       stageEv("heuristics", calculateProgress("heuristics", Sixths)),
       stageEv("sampling", calculateProgress("sampling", 0)),
       stageEv("sampling", calculateProgress("sampling", Sixths)),
       stageEv("parsing", calculateProgress("parsing", 0)),
       stageEv("parsing", calculateProgress("parsing", Sixths)) >>

\* extractFilesFromTar ('Tarball too large' raises); on success the route
\* calls runFullAudit, which runs to its first await: it saves and sets the
\* provider, runs heuristics, sampling and parsing, and waits for Context7
Extract ==
    /\ rpc = "extract"
    /\ \/ /\ RouteCatch(TarballTooLarge)
          /\ UNCHANGED auditVars
       \/ /\ sse' = sendEvent(sse, writer,
                     <<stageEv("extracting", calculateProgress("extracting", Sixths))>>
                     \o AuditEntryEvents)
          /\ rpc' = "audit"
          /\ prevProvider' = activeProvider
          /\ activeProvider' = reqProvider
          /\ apc' = "docs"
          /\ UNCHANGED <<writer, rejectedWrites, response>>
          /\ UNCHANGED <<docsSnippets, agents, completedAgents, overtaken, join, suffixes,
                         plannerCalls, issues, warnings, result>>
    /\ UNCHANGED <<commitSha, forceRefresh, reqProvider, reqModel, delivered>>
    /\ UNCHANGED <<callVars, samplingVars, runVars, cacheVars>>

(***************************************************************************)
(* lib/ai/agents/coordinator.ts: runFullAudit from its first await on.     *)
(***************************************************************************)
\* the numbers of Context7 snippets a run may gather (none when unconfigured)
DocsCounts == {0, 2}

\* the Context7 lookup (any error is caught), then the fan-out: the
\* 'analyzing' event, and the six tasks handed to the limiter
DocsFetch ==
    /\ apc = "docs"
    /\ \E n \in DocsCounts : docsSnippets' = n
    /\ sse' = sendEvent(sse, writer, <<stageEv("analyzing", calculateProgress("analyzing", 0))>>)
    /\ rejectedWrites' = rejectedWrites
    /\ agents' = startQueued([k \in 1..AgentCount |-> QueuedAgent])
    /\ completedAgents' = 0
    /\ overtaken' = FALSE
    /\ join' = "pending"
    /\ apc' = "analyzing"
    /\ UNCHANGED <<prevProvider, activeProvider, suffixes, plannerCalls, issues, warnings, result>>
    /\ UNCHANGED <<rpc, commitSha, forceRefresh, reqProvider, reqModel, writer, delivered, response>>
    /\ UNCHANGED <<callVars, samplingVars, runVars, cacheVars>>

\* an analyzer that did anything but return the usual list of one finding
degraded(a) ==
    a.st = "rejected" \/ (a.st = "fulfilled" /\ (a.how # "direct" \/ a.raw # DirectList.raw))

degradedCount(ag) == Cardinality({k \in 1..AgentCount : degraded(ag[k])})

\* agentWrapper around analyzer k settles with outcome o; the limiter then
\* starts the next queued task and Promise.all takes note
AgentSettle(k, o) ==
    /\ agents[k].st = "running"
    /\ o # DirectList => degradedCount(agents) < MaxDegraded
    /\ LET rec == recoverFromError(o.text)
           fulfilled == o.ret \/ rec.recovered
           done == [st |-> IF fulfilled THEN "fulfilled" ELSE "rejected",
                    raw |-> IF o.ret THEN o.raw ELSE IF rec.recovered THEN rec.value ELSE NoRaw,
                    how |-> IF o.ret THEN "direct" ELSE IF rec.recovered THEN "unwrapped" ELSE None]
           \* try: completedAgents++ ; catch: completedAgents++, and
           \* completedAgents-- when the text was unwrapped
           count == IF o.ret THEN completedAgents + 1
                    ELSE IF rec.recovered THEN (completedAgents + 1) - 1
                    ELSE completedAgents + 1
           evs == IF o.ret
                  THEN <<stageEv("analyzing", calculateProgress("analyzing", count))>>
                  ELSE <<>>
       IN  /\ completedAgents' = count
           /\ overtaken' = (overtaken \/ \E j \in 1..(k - 1) : j \notin settled(agents))
           /\ agents' = startQueued([agents EXCEPT ![k] = done])
           /\ join' = joinAfter(join, agents')
           /\ sse' = sendEvent(sse, writer, evs)
           /\ rejectedWrites' = rejectedWrites + refused(writer, evs)
    /\ UNCHANGED <<apc, prevProvider, activeProvider, docsSnippets, suffixes, plannerCalls,
                   issues, warnings, result>>
    /\ UNCHANGED <<rpc, commitSha, forceRefresh, reqProvider, reqModel, writer, delivered, response>>
    /\ UNCHANGED <<callVars, samplingVars, runVars, cacheVars>>

\* Promise.all rejected: the finally block restores the provider, the error
\* reaches the route's catch
AuditJoinRejected ==
    /\ apc = "analyzing"
    /\ join = "rejected"
    /\ apc' = "thrown"
    /\ activeProvider' = prevProvider
    /\ RouteCatch(AnalyzerFailed)
    /\ UNCHANGED <<prevProvider, docsSnippets, agents, completedAgents, overtaken, join, suffixes,
                   plannerCalls, issues, warnings, result>>
    /\ UNCHANGED <<commitSha, forceRefresh, reqProvider, reqModel, delivered>>
    /\ UNCHANGED <<callVars, samplingVars, runVars, cacheVars>>

\* Promise.all resolved: normalize and merge the six outputs, attach the
\* docs, and call the planner
Synthesize ==
    /\ apc = "analyzing"
    /\ join = "resolved"
    /\ \E d \in Draws :
        LET m == mergeIssues([k \in 1..AgentCount |-> agents[k].raw], d) IN
        /\ suffixes' = d
        /\ issues' = attachDocs(m.issues, docsSnippets)
        /\ warnings' = m.warnings
    /\ plannerCalls' = plannerCalls + 1
    /\ apc' = "planning"
    /\ sse' = sendEvent(sse, writer,
                        <<stageEv("synthesizing", calculateProgress("synthesizing", 0))>>)
    /\ UNCHANGED <<prevProvider, activeProvider, docsSnippets, agents, completedAgents, overtaken, join, result>>
    /\ UNCHANGED <<rpc, commitSha, forceRefresh, reqProvider, reqModel, writer, rejectedWrites, delivered, response>>
    /\ UNCHANGED <<callVars, samplingVars, runVars, cacheVars>>

\* codemodAgentPlan settles.  When it raises, runFullAudit raises (finally
\* restores the provider) and the route's catch runs.  When it returns, the
\* mapping is applied, the warnings finding appended, the result built and
\* 'complete' emitted; back in the route the result is cached when there is
\* a revision, else sent at once.
PlannerSettle(o) ==
    /\ apc = "planning"
    /\ IF ~o.ret
       THEN /\ apc' = "thrown"
            /\ RouteCatch(PlannerFailed)
            /\ UNCHANGED <<issues, warnings, result, delivered>>
       ELSE LET n == normalizeAgentOutput("codemod", o.raw, warnings)
                iss == withWarningsIssue(applyCodemods(issues, n.list, 1), n.warnings, suffixes)
                res == buildResult(Repo, iss, n.warnings, reqProvider)
                evs == <<stageEv("synthesizing", calculateProgress("synthesizing", Sixths)),
                         completeEv>>
            IN  /\ apc' = "returned"
                /\ issues' = iss
                /\ warnings' = n.warnings
                /\ result' = res
                /\ rejectedWrites' = rejectedWrites
                /\ IF commitSha # NoSha
                   THEN /\ sse' = sendEvent(sse, writer, evs)
                        /\ rpc' = "store"
                        /\ UNCHANGED <<delivered, writer, response>>
                   ELSE /\ sse' = sendEvent(sse, writer, evs \o <<Ev("result", "fresh", 0)>>)
                        /\ delivered' = IF streaming THEN res ELSE delivered
                        /\ response' = IF streaming THEN response ELSE OkResponse(res)
                        /\ writer' = closeWriter(writer)
                        /\ rpc' = "closed"
    /\ activeProvider' = prevProvider
    /\ UNCHANGED <<prevProvider, docsSnippets, agents, completedAgents, overtaken, join, suffixes, plannerCalls>>
    /\ UNCHANGED <<commitSha, forceRefresh, reqProvider, reqModel>>
    /\ UNCHANGED <<callVars, samplingVars, runVars, cacheVars>>

\* cacheScanResult(result, commitSha): the repo upsert or the scan create may
\* fail, which is caught and logged; then the result is sent and the writer closed
CacheStore ==
    /\ rpc = "store"
    /\ \E w \in WriteOutcomes :
        /\ store' = storeAfterWrite(store, result, commitSha, now, w)
        /\ written' = writtenAfterWrite(written, result, commitSha, now, w)
    /\ sse' = sendEvent(sse, writer, <<Ev("result", "fresh", 0)>>)
    /\ delivered' = result
    /\ writer' = "closed"
    /\ rpc' = "closed"
    /\ UNCHANGED <<commitSha, forceRefresh, reqProvider, reqModel, rejectedWrites, response>>
    /\ UNCHANGED <<callVars, samplingVars, runVars, auditVars, now, lookup>>

(***************************************************************************)
(* One streamed request against a cache that is empty or holds the report  *)
(* of an earlier run for the same key.                                     *)
(***************************************************************************)
Init ==
    /\ SamplingIdle /\ RunsIdle /\ CallIdle
    /\ rpc = "request" /\ commitSha = NoSha
    /\ writer \in {"open", "none"}
    /\ forceRefresh \in (IF streaming THEN BOOLEAN ELSE {FALSE})
    /\ reqProvider \in RequestProviders
    /\ reqModel = getDefaultModelForProvider(reqProvider)
    /\ sse = <<>> /\ rejectedWrites = 0 /\ delivered = NoResult /\ response = NoResponse
    /\ AuditIdle
    /\ \E w \in {"upsert fails", "ok"} :
          /\ store = storeAfterWrite(EmptyStore, PriorResult(reqProvider), "sha1", 0, w)
          /\ written = writtenAfterWrite(<<>>, PriorResult(reqProvider), "sha1", 0, w)
    /\ now = 0
    /\ lookup = NoLookup

Next ==
    \/ ParseRequest
    \/ GetCommitSha
    \/ CacheLookup
    \/ Download
    \/ Extract
    \/ DocsFetch
    \/ \E k \in 1..AgentCount, o \in AgentOutcomes : AgentSettle(k, o)
    \/ AuditJoinRejected
    \/ Synthesize
    \/ \E o \in PlannerOutcomes : PlannerSettle(o)
    \/ CacheStore

Spec == Init /\ [][Next]_vars

(***************************************************************************)
(* The sampler under test: inputs are drawn once, then the function is     *)
(* applied.                                                                *)
(***************************************************************************)
SamplingInit ==
    /\ \E ks \in SeqsUpTo(FileKinds, MaxFileCount) :
           files = [i \in 1..Len(ks) |-> FileOf(ks[i], i)]
    /\ heuristics \in SUBSET (1..Len(files))
    /\ maxFiles \in 0..MaxCap
    /\ selected = <<>>
    /\ spc = "input"
    /\ RouteIdle /\ AuditIdle /\ CacheIdle /\ CallIdle /\ RunsIdle

Sample ==
    /\ spc = "input"
    /\ selected' = intelligentSampling(files, heuristics, maxFiles)
    /\ spc' = "done"
    /\ UNCHANGED <<files, heuristics, maxFiles>>
    /\ UNCHANGED <<routeVars, auditVars, cacheVars, callVars, runVars>>

SamplingNext == Sample

SpecSampling == SamplingInit /\ [][SamplingNext]_vars

\* paths of the returned list
selectedPaths == {selected[i].path : i \in 1..Len(selected)}

\* the non-binary files a RuleHit references
flaggedTextFiles ==
    {i \in 1..Len(files) : i \in heuristics /\ ~files[i].isBinary /\ files[i].hasContent}

\* C2: every non-binary file referenced by at least one RuleHit appears in the
\* output of intelligentSampling, whatever the cap.
C2_FlaggedNeverDropped ==
    spc = "done" => flaggedTextFiles \subseteq selectedPaths

\* C3: the list returned by intelligentSampling has at most maxFiles entries.
C3_SamplerCap ==
    spc = "done" => Len(selected) <= maxFiles

\* a call where the cap bites: more scorable files than the cap, a flagged one among them
C3_Witness ==
    /\ spc = "done"
    /\ Len(scoreAll(files, heuristics, 1)) > maxFiles
    /\ flaggedTextFiles # {}
    /\ maxFiles > 0
    /\ Len(selected) = maxFiles

\* the sorted list the two passes walk, and the selection the first pass holds
\* when it comes to the i-th file of that list
scoredFiles == sortByPriority(scoreAll(files, heuristics, 1))

firstPassBefore(i) == firstPass(SubSeq(scoredFiles, 1, i - 1), <<>>, maxFiles, 1)

\* the files of a selection whose first-listed tag is t
primaryCount(sel, t) == Cardinality({j \in 1..Len(sel) : sel[j].reason[1] = t})

\* C21: in the quota-fill pass a file whose first tag is T is admitted whenever
\* the cap is not reached and fewer than quota(T) files whose first tag is T
\* were selected before it; files selected under another first tag that also
\* carry T do not count.
C21_PrimaryTagCredit ==
    spc = "done" =>
        \A i \in 1..Len(scoredFiles) :
            LET sel == firstPassBefore(i)
                T == scoredFiles[i].reason[1]
            IN  (Len(sel) < maxFiles
                 /\ underQuota(primaryCount(sel, T), typeQuotas(T, maxFiles)))
                    => scoredFiles[i] \in Range(firstPassBefore(i + 1))

(***************************************************************************)
(* normalizeAgentOutput under test: an analyzer name, a raw output and the *)
(* warnings so far are drawn, then the function is applied.                *)
(***************************************************************************)
\* the characters of the texts drawn: no fence, one kind of object
NormTokens == Tokens \ {"~", "b"}

NormRaws ==
    {Str(t) : t \in SeqsUpTo(NormTokens, MaxTextLen)}
        \cup {Arr(<<>>), Arr(<<ObjA>>), Arr(<<ObjB, ObjA>>), ObjA, [kind |-> "undefined"]}

NormWarnings == {<<>>, <<Warning("lint", "failed to parse JSON")>>}

NormalizeInit ==
    /\ callArgs \in [agent : {"ux", "codemod"}, raw : NormRaws, warnings : NormWarnings]
    /\ callResult = <<>>
    /\ cpc = "input"
    /\ SamplingIdle /\ RunsIdle /\ RouteIdle /\ AuditIdle /\ CacheIdle

Normalize ==
    /\ cpc = "input"
    /\ callResult' = normalizeAgentOutput(callArgs.agent, callArgs.raw, callArgs.warnings)
    /\ cpc' = "done"
    /\ UNCHANGED callArgs
    /\ UNCHANGED <<samplingVars, runVars, routeVars, auditVars, cacheVars>>

NormalizeNext == Normalize

SpecNormalize == NormalizeInit /\ [][NormalizeNext]_vars

isText(raw) == raw.kind = "string"

\* whether t has a "[" with a "]" after it, and the text from the one to the other
hasSlice(t) == indexOf(t, "[") # 0 /\ lastIndexOf(t, "]") > indexOf(t, "[")

sliceOf(t) == SubSeq(t, indexOf(t, "["), lastIndexOf(t, "]"))

sliceParsesAsArray(t) ==
    hasSlice(t) /\ jsonParse(sliceOf(t)).ok /\ jsonParse(sliceOf(t)).val.kind = "array"

\* what the normalizer is to return after a recovery by slicing
recoveredBySlice ==
    /\ callResult.list = jsonParse(sliceOf(callArgs.raw.text)).val.items
    /\ callResult.warnings =
          Append(callArgs.warnings,
                 Warning(callArgs.agent, "parsed after array-slice extraction"))

\* C16 as stated: a text that is not valid JSON but whose part from the first
\* "[" to the last "]" parses as an array gives that array and exactly one
\* warning, a recovery warning naming the analyzer.
C16_SliceRecoveryAsStated ==
    (cpc = "done" /\ isText(callArgs.raw)
       /\ ~jsonParse(callArgs.raw.text).ok
       /\ sliceParsesAsArray(callArgs.raw.text)) => recoveredBySlice

\* C16, amended: a text whose trimmed form is not valid JSON but whose part
\* from the first "[" to the last "]" parses as an array gives that array and
\* exactly one warning, a recovery warning naming the analyzer.
C16_SliceRecovery ==
    (cpc = "done" /\ isText(callArgs.raw)
       /\ ~jsonParse(trim(callArgs.raw.text)).ok
       /\ sliceParsesAsArray(callArgs.raw.text)) => recoveredBySlice

\* an array inside prose was recovered, after an earlier warning of the run
C16_Witness ==
    /\ cpc = "done" /\ isText(callArgs.raw)
    /\ ~jsonParse(trim(callArgs.raw.text)).ok
    /\ sliceParsesAsArray(callArgs.raw.text)
    /\ "x" \in Range(callArgs.raw.text)
    /\ callResult.list # <<>>
    /\ Len(callResult.warnings) = 2

\* a raw output that is neither a list nor recoverable
unusable(raw) ==
    \/ ~isText(raw) /\ raw.kind # "array"
    \/ isText(raw) /\ trim(raw.text) = <<>>
    \/ isText(raw) /\ ~jsonParse(raw.text).ok /\ ~sliceParsesAsArray(raw.text)
    \/ isText(raw) /\ jsonParse(raw.text).ok /\ jsonParse(raw.text).val.kind # "array"

\* C17: a raw output that is neither a list nor recoverable gives an empty
\* list and exactly one more warning, which names the analyzer.
C17_NormalizerFailure ==
    (cpc = "done" /\ unusable(callArgs.raw)) =>
        /\ callResult.list = <<>>
        /\ Len(callResult.warnings) = Len(callArgs.warnings) + 1
        /\ SubSeq(callResult.warnings, 1, Len(callArgs.warnings)) = callArgs.warnings
        /\ callResult.warnings[Len(callResult.warnings)].agent = callArgs.agent

\* a text with brackets for which the full parse and the slice parse both failed
C17_Witness ==
    /\ cpc = "done" /\ isText(callArgs.raw)
    /\ hasSlice(callArgs.raw.text)
    /\ ~jsonParse(trim(callArgs.raw.text)).ok
    /\ ~jsonParse(sliceOf(callArgs.raw.text)).ok
    /\ callResult.list = <<>>
    /\ callArgs.warnings # <<>>

\* C18: a list-typed raw output is returned unchanged and the warnings list is
\* left as it was.
C18_PassThrough ==
    (cpc = "done" /\ callArgs.raw.kind = "array") =>
        /\ callResult.list = callArgs.raw.items
        /\ callResult.warnings = callArgs.warnings

\* a list of two findings went through while the run already had a warning
C18_Witness ==
    /\ cpc = "done" /\ callArgs.raw.kind = "array"
    /\ Len(callResult.list) = 2
    /\ callResult.warnings # <<>>

(***************************************************************************)
(* buildMarkdownReport on its own: it is handed a report whose issues are  *)
(* a list of up to MaxReportLen issues of the seven types and the five     *)
(* severities; an issue's id is its place in that list.                    *)
(***************************************************************************)
MaxReportLen == 3

IssueTypes == {TypeOrder[k] : k \in 1..Len(TypeOrder)}

ReportIssue(i, kind) == [id |-> i, type |-> kind.type, severity |-> kind.severity]

\* the issues drawn: every type at medium severity, and three of the types at
\* every severity
ReportKinds ==
    [type : IssueTypes, severity : {"medium"}]
    \cup [type : {"security", "performance", "general"}, severity : Severities]

ReportInputs ==
    {[i \in 1..Len(kinds) |-> ReportIssue(i, kinds[i])] :
        kinds \in SeqsUpTo(ReportKinds, MaxReportLen)}

ReportInit ==
    /\ callArgs \in {[buildResult(Repo, iss, <<>>, "vercel") EXCEPT !.markdown = EmptyMarkdown] :
                          iss \in ReportInputs}
    /\ callResult = <<>>
    /\ cpc = "input"
    /\ SamplingIdle /\ RunsIdle /\ RouteIdle /\ AuditIdle /\ CacheIdle

Render ==
    /\ cpc = "input"
    /\ callResult' = buildMarkdownReport(callArgs)
    /\ cpc' = "done"
    /\ UNCHANGED callArgs
    /\ UNCHANGED <<samplingVars, runVars, routeVars, auditVars, cacheVars>>

ReportNext == Render

SpecReport == ReportInit /\ [][ReportNext]_vars

\* the place of a type in the fixed order
typeIndex(t) == CHOOSE k \in 1..Len(TypeOrder) : TypeOrder[k] = t

\* the issues as they are printed
printed == callResult.findings

C20_WitnessStable ==
    /\ cpc = "done"
    /\ Len(printed) = 3
    /\ callArgs.issues[1].type = "general" /\ callArgs.issues[2].type = "general"
    /\ callArgs.issues[1].severity = "high"
    /\ callArgs.issues[1].severity = callArgs.issues[2].severity
    /\ callArgs.issues[3].type = "security"
    /\ printed = <<callArgs.issues[3], callArgs.issues[1], callArgs.issues[2]>>

(***************************************************************************)
(* The planner mapping on its own: the loop over the planner's entries is  *)
(* handed a merged list of up to MaxPlanIssues issues and up to            *)
(* MaxPlanEntries entries.                                                 *)
(***************************************************************************)
MaxPlanIssues == 3
MaxPlanEntries == 2

Codemod(name) == [name |-> name, command |-> "npx jscodeshift", description |-> "fix"]

\* entries: for the title "A" (two transforms), for the title "a", for a title
\* no issue has, one without a transform and one without a title
PlanEntries ==
    { Obj(None, None, "A", Codemod("fix-a")),
      Obj(None, None, "A", Codemod("fix-a2")),
      Obj(None, None, "a", Codemod("fix-lower")),
      Obj(None, None, "C", Codemod("fix-c")),
      Obj(None, None, "A", NoCodemod),
      Obj(None, None, None, Codemod("fix-a")) }

PlanTitles == {"A", "a"}

PlanIssues ==
    {[i \in 1..Len(ts) |-> Issue("lint", i, Obj(ts[i], "high", None, NoCodemod))] :
        ts \in SeqsUpTo(PlanTitles, MaxPlanIssues)}

PlanInit ==
    /\ callArgs \in [issues : PlanIssues, codemods : SeqsUpTo(PlanEntries, MaxPlanEntries)]
    /\ callResult = <<>>
    /\ cpc = "input"
    /\ SamplingIdle /\ RunsIdle /\ RouteIdle /\ AuditIdle /\ CacheIdle

ApplyPlan ==
    /\ cpc = "input"
    /\ callResult' = applyCodemods(callArgs.issues, callArgs.codemods, 1)
    /\ cpc' = "done"
    /\ UNCHANGED callArgs
    /\ UNCHANGED <<samplingVars, runVars, routeVars, auditVars, cacheVars>>

PlanNext == ApplyPlan

SpecPlan == PlanInit /\ [][PlanNext]_vars

\* whether issue i is the first of the merged list with its title
firstOfTitle(iss, i) == \A j \in 1..(i - 1) : iss[j].title # iss[i].title

\* the entries with a title and a transform whose title is that of issue i
entriesFor(iss, cms, i) ==
    {k \in 1..Len(cms) :
        cms[k].issueTitle # None /\ cms[k].codemod # NoCodemod
        /\ cms[k].issueTitle = iss[i].title}

lastOf(S) == CHOOSE k \in S : \A m \in S : m <= k

\* C23: after the planner mapping the list has the issues it had, in their
\* order; an issue carries a transform exactly when it is the first issue of
\* its title and an entry with a title and a transform names that title (the
\* transform of the last such entry); every other issue is as it was, also a
\* later issue of the same title, and with no matching title no issue changes.
C23_FirstTitleMatchOnly ==
    cpc = "done" =>
        /\ Len(callResult) = Len(callArgs.issues)
        /\ \A i \in 1..Len(callResult) :
              LET hits == entriesFor(callArgs.issues, callArgs.codemods, i) IN
              IF firstOfTitle(callArgs.issues, i) /\ hits # {}
              THEN callResult[i] =
                       [callArgs.issues[i] EXCEPT !.codemod = callArgs.codemods[lastOf(hits)].codemod]
              ELSE callResult[i] = callArgs.issues[i]

\* three issues titled A, a, A and the entries for C and for A: the first
\* issue has the transform, the third has none
C23_Witness ==
    /\ cpc = "done"
    /\ Len(callResult) = 3
    /\ callArgs.issues[1].title = "A" /\ callArgs.issues[2].title = "a"
    /\ callArgs.issues[3].title = "A"
    /\ callArgs.codemods = <<Obj(None, None, "C", Codemod("fix-c")),
                             Obj(None, None, "A", Codemod("fix-a"))>>
    /\ callResult[1].codemod = Codemod("fix-a")
    /\ callResult[2] = callArgs.issues[2]
    /\ callResult[3] = callArgs.issues[3]

\* only an entry for a title no issue has: nothing changed
C23_WitnessNoMatch ==
    /\ cpc = "done"
    /\ callArgs.issues # <<>>
    /\ callArgs.codemods = <<Obj(None, None, "C", Codemod("fix-c"))>>
    /\ callResult = callArgs.issues

(***************************************************************************)
(* lib/ai/tools/heuristics.ts: runHeuristics.                              *)
(*                                                                         *)
(* A file's text is a sequence of tokens: "eval" and "(" are themselves,   *)
(* " " is a blank, "nl" is the line feed, "x" is an identifier character,  *)
(* "D" is the word dangerouslySetInnerHTML, "G" is 'export async function  *)
(* GET', "R" is the word revalidate, "m" is 'map((row', ">" is ')=>' and   *)
(* "<" is '<Row'.  A path enters only through the two tests made on it.    *)
(***************************************************************************)
HeurSpace == {" ", "nl"}
HeurWord == {"eval", "x", "D", "R"}

\* text.split('\n'): the lines of a text
RECURSIVE splitLines(_, _)
splitLines(t, cur) ==
    IF t = <<>> THEN <<cur>>
    ELSE IF Head(t) = "nl" THEN <<cur>> \o splitLines(Tail(t), <<>>)
    ELSE splitLines(Tail(t), Append(cur, Head(t)))

\* text.includes(word)
includesWord(t, w) == \E i \in 1..Len(t) : t[i] = w

\* /\beval\s*\(/.test(t)
matchesEval(t) ==
    \E i \in 1..Len(t) : \E j \in (i + 1)..Len(t) :
        /\ t[i] = "eval" /\ (i = 1 \/ t[i - 1] \notin HeurWord)
        /\ t[j] = "("
        /\ \A k \in (i + 1)..(j - 1) : t[k] \in HeurSpace

\* /map\(\(.*\)\s*=>\s*<\w+/ with or without the s flag: without it the dot
\* stops at a line feed
matchesMap(t, dotAll) ==
    \E i \in 1..Len(t) : \E j \in (i + 1)..Len(t) : \E k \in (j + 1)..Len(t) :
        /\ t[i] = "m" /\ t[j] = ">" /\ t[k] = "<"
        /\ dotAll \/ \A n \in (i + 1)..(j - 1) : t[n] # "nl"
        /\ \A n \in (j + 1)..(k - 1) : t[n] \in HeurSpace

\* Array.prototype.findIndex over the lines, plus one: 0 when no line passes
firstLine(lines, Test(_)) ==
    IF \E n \in 1..Len(lines) : Test(lines[n])
    THEN CHOOSE n \in 1..Len(lines) : Test(lines[n]) /\ \A m \in 1..(n - 1) : ~Test(lines[m])
    ELSE 0

RuleHit(rule, f, line) == [rule |-> rule, file |-> f.path, line |-> line]

\* the hits pushed for one file
fileHits(f) ==
    IF f.isBinary \/ ~f.hasContent THEN <<>>
    ELSE LET lines == splitLines(f.text, <<>>) IN
         (IF includesWord(f.text, "D")
          THEN <<RuleHit("react-dangerouslySetInnerHTML", f,
                         firstLine(lines, LAMBDA l : includesWord(l, "D")))>>
          ELSE <<>>)
         \o (IF matchesEval(f.text)
             THEN <<RuleHit("no-eval", f, firstLine(lines, matchesEval))>>
             ELSE <<>>)
         \o (IF f.publicImage
             THEN <<RuleHit("large-asset-public", f, 1)>>
             ELSE <<>>)
         \o (IF matchesMap(f.text, TRUE) /\ f.large
             THEN <<RuleHit("inline-component-in-map", f,
                            firstLine(lines, LAMBDA l : matchesMap(l, FALSE)))>>
             ELSE <<>>)
         \o (IF f.appRoute /\ includesWord(f.text, "G") /\ ~includesWord(f.text, "R")
             THEN <<RuleHit("api-no-cache-control", f,
                            firstLine(lines, LAMBDA l : includesWord(l, "G")))>>
             ELSE <<>>)

RECURSIVE runHeuristics(_, _)
runHeuristics(fs, i) ==
    IF i > Len(fs) THEN <<>> ELSE fileHits(fs[i]) \o runHeuristics(fs, i + 1)

(***************************************************************************)
(* runHeuristics on its own: it is handed one or two files.  The first has *)
(* any text of up to MaxHeurLen tokens around eval, or one of the texts    *)
(* for the other rules; the second is a text file or a binary one.         *)
(***************************************************************************)
MaxHeurLen == 4

HeurFile(text, isBinary, hasContent, publicImage, appRoute, large) ==
    [text |-> text, isBinary |-> isBinary, hasContent |-> hasContent,
     publicImage |-> publicImage, appRoute |-> appRoute, large |-> large]

HeurFirstFiles ==
    {HeurFile(t, FALSE, TRUE, FALSE, FALSE, FALSE) :
        t \in SeqsUpTo({"eval", "(", "nl", "x", "D"}, MaxHeurLen)}
    \cup {HeurFile(<<"x", "nl", "G">>, FALSE, TRUE, FALSE, r, FALSE) : r \in BOOLEAN}
    \cup {HeurFile(<<"R", "nl", "G">>, FALSE, TRUE, FALSE, TRUE, FALSE)}
    \cup {HeurFile(<<"x", "nl", "m", ">", " ", "<">>, FALSE, TRUE, FALSE, FALSE, l) : l \in BOOLEAN}
    \cup {HeurFile(<<"m", "nl", ">", "nl", "<">>, FALSE, TRUE, FALSE, FALSE, TRUE)}
    \cup {HeurFile(<<"x">>, b, TRUE, TRUE, FALSE, FALSE) : b \in BOOLEAN}

HeurSecondFiles ==
    { HeurFile(<<"x", "nl", "eval", "(">>, FALSE, TRUE, FALSE, FALSE, FALSE),
      HeurFile(<<"eval", "(", "D">>, TRUE, TRUE, TRUE, TRUE, TRUE),
      HeurFile(<<"eval", "(", "D">>, FALSE, FALSE, TRUE, TRUE, TRUE) }

\* the files of a list, each with its place in the list for a path
withPaths(fs) ==
    [i \in 1..Len(fs) |->
        [path |-> i, text |-> fs[i].text, isBinary |-> fs[i].isBinary,
         hasContent |-> fs[i].hasContent, publicImage |-> fs[i].publicImage,
         appRoute |-> fs[i].appRoute, large |-> fs[i].large]]

HeuristicsInit ==
    /\ callArgs \in {withPaths(<<f>>) : f \in HeurFirstFiles}
                    \cup {withPaths(<<f, g>>) : f \in HeurFirstFiles, g \in HeurSecondFiles}
    /\ callResult = <<>>
    /\ cpc = "input"
    /\ SamplingIdle /\ RunsIdle /\ RouteIdle /\ AuditIdle /\ CacheIdle

RunHeuristics ==
    /\ cpc = "input"
    /\ callResult' = runHeuristics(callArgs, 1)
    /\ cpc' = "done"
    /\ UNCHANGED callArgs
    /\ UNCHANGED <<samplingVars, runVars, routeVars, auditVars, cacheVars>>

HeuristicsNext == RunHeuristics

SpecHeuristics == HeuristicsInit /\ [][HeuristicsNext]_vars

\* whether a line of a file matches a rule that reads the text
lineMatches(rule, l) ==
    CASE rule = "react-dangerouslySetInnerHTML" -> includesWord(l, "D")
      [] rule = "no-eval"                       -> matchesEval(l)
      [] rule = "inline-component-in-map"       -> matchesMap(l, FALSE)
      [] rule = "api-no-cache-control"          -> includesWord(l, "G")
      [] OTHER                                  -> FALSE

\* C25: each rule emits at most one hit for a file, a binary file and a file
\* without content get none, and the line of a hit is never 0: it is the
\* 1-based number of the first line of the file that matches the rule (1 for
\* the rule that reads the path only).
C25_HitsBoundedAndLocated ==
    cpc = "done" =>
        /\ \A p, q \in 1..Len(callResult) :
              (callResult[p].file = callResult[q].file
               /\ callResult[p].rule = callResult[q].rule) => p = q
        /\ \A p \in 1..Len(callResult) :
              LET f == callArgs[callResult[p].file]
                  lines == splitLines(f.text, <<>>)
              IN  /\ ~f.isBinary /\ f.hasContent
                  /\ callResult[p].line >= 1
                  /\ callResult[p].rule # "large-asset-public" =>
                        /\ callResult[p].line <= Len(lines)
                        /\ lineMatches(callResult[p].rule, lines[callResult[p].line])
                        /\ \A n \in 1..(callResult[p].line - 1) :
                              ~lineMatches(callResult[p].rule, lines[n])

(***************************************************************************)
(* lib/ai/tools/codegraph.ts: buildCodeGraph.                              *)
(*                                                                         *)
(* A source file enters through its directory and base name, the number of *)
(* its lines and the declarations ts-morph finds in it, in the order       *)
(* forEachDescendant visits them: function and class declarations, and the *)
(* variable statements that pass the component test ("component"), each    *)
(* with the lines of its start and of its end.                             *)
(***************************************************************************)
Chunk(f, kind, startLine, endLine) ==
    [id |-> <<f.base, startLine, endLine>>, file |-> <<f.dir, f.base>>,
     kind |-> kind, startLine |-> startLine, endLine |-> endLine]

\* the chunks of one source file: one per declaration, or the whole file
\* when it has none
fileChunks(f) ==
    IF f.decls = <<>> THEN <<Chunk(f, "code", 1, f.lines)>>
    ELSE [n \in 1..Len(f.decls) |->
             Chunk(f, f.decls[n].kind, f.decls[n].startLine, f.decls[n].endLine)]

\* whether a file becomes a source file of the project
isSourceFile(f) == ~f.isBinary /\ f.hasContent /\ f.isCode

RECURSIVE buildCodeGraph(_, _)
buildCodeGraph(fs, i) ==
    IF i > Len(fs) THEN <<>>
    ELSE (IF isSourceFile(fs[i]) THEN fileChunks(fs[i]) ELSE <<>>)
         \o buildCodeGraph(fs, i + 1)

(***************************************************************************)
(* buildCodeGraph on its own: it is handed one or two files of different   *)
(* paths.  The first is a/index.ts with up to MaxDecls declarations over   *)
(* MaxLines lines, or a file that is skipped; the second is one of a few   *)
(* files in the same or in another directory.                              *)
(***************************************************************************)
MaxDecls == 2
MaxLines == 2

GraphDecls ==
    {d \in [kind : {"function", "class", "component"},
            startLine : 1..MaxLines, endLine : 1..MaxLines] : d.startLine <= d.endLine}

\* declarations in document order
DeclLists ==
    {ds \in SeqsUpTo(GraphDecls, MaxDecls) :
        \A m, n \in 1..Len(ds) : m < n => ds[m].startLine <= ds[n].startLine}

GraphFile(dir, base, isBinary, isCode, lines, decls) ==
    [dir |-> dir, base |-> base, isBinary |-> isBinary, hasContent |-> ~isBinary,
     isCode |-> isCode, lines |-> lines, decls |-> decls]

GraphFirstFiles ==
    {GraphFile("a", "index.ts", FALSE, TRUE, MaxLines, ds) : ds \in DeclLists}
    \cup { GraphFile("a", "logo.png", TRUE, FALSE, 1, <<>>),
           GraphFile("a", "README.md", FALSE, FALSE, MaxLines, <<>>) }

GraphSecondFiles ==
    { GraphFile("b", "index.ts", FALSE, TRUE, MaxLines, <<>>),
      GraphFile("b", "index.ts", FALSE, TRUE, 1,
                <<[kind |-> "function", startLine |-> 1, endLine |-> 1]>>),
      GraphFile("a", "util.ts", FALSE, TRUE, MaxLines, <<>>),
      GraphFile("b", "index.css", FALSE, FALSE, MaxLines, <<>>) }

GraphInit ==
    /\ callArgs \in {<<f>> : f \in GraphFirstFiles}
                    \cup {<<f, g>> : f \in GraphFirstFiles, g \in GraphSecondFiles}
    /\ callResult = <<>>
    /\ cpc = "input"
    /\ SamplingIdle /\ RunsIdle /\ RouteIdle /\ AuditIdle /\ CacheIdle

BuildGraph ==
    /\ cpc = "input"
    /\ callResult' = buildCodeGraph(callArgs, 1)
    /\ cpc' = "done"
    /\ UNCHANGED callArgs
    /\ UNCHANGED <<samplingVars, runVars, routeVars, auditVars, cacheVars>>

GraphNext == BuildGraph

SpecGraph == GraphInit /\ [][GraphNext]_vars

\* C30: in the list returned by buildCodeGraph no two chunks have the same
\* id, also for files of one base name in different directories and for
\* declarations that span the same lines.
C30_UniqueChunkIds ==
    cpc = "done" =>
        \A p, q \in 1..Len(callResult) :
            p # q => callResult[p].id # callResult[q].id

(***************************************************************************)
(* The cache on its own: reports of finished runs are stored under         *)
(* revisions, keys are looked up, and days pass.                           *)
(***************************************************************************)
CacheShas == {"sha1", "sha2"}

\* a second repository that shares the store
OtherRepo == [owner |-> "acme", repo |-> "blog", ref |-> None]

CacheReports ==
    {RichResult("openrouter"), RichResult("vercel"),
     [PriorResult("openrouter") EXCEPT !.repo = OtherRepo]}

\* provider and model of a lookup: the two defaults, and a provider asked with
\* the other provider's model
CacheBackends ==
    {<<p, getDefaultModelForProvider(p)>> : p \in Providers}
        \cup {<<"openrouter", getDefaultModelForProvider("vercel")>>}

CacheKeys ==
    {Key(r.owner, r.repo, sha, b[1], b[2]) :
        r \in {Repo, OtherRepo}, sha \in CacheShas, b \in CacheBackends}
        \cup {Key(Repo.owner, Repo.repo, NoSha, "openrouter",
                  getDefaultModelForProvider("openrouter"))}

\* the lookups made: every key with a store that answers, one with a store that fails
CacheReads ==
    {<<key, TRUE>> : key \in CacheKeys}
        \cup {<<Key(Repo.owner, Repo.repo, "sha1", "openrouter",
                    getDefaultModelForProvider("openrouter")), FALSE>>}

CacheInit ==
    /\ SamplingIdle /\ RunsIdle /\ RouteIdle /\ AuditIdle /\ CacheIdle /\ CallIdle

\* cacheScanResult(res, sha)
CacheWrite(res, sha, w) ==
    /\ Len(store.scans) < MaxScans
    /\ store' = storeAfterWrite(store, res, sha, now, w)
    /\ written' = writtenAfterWrite(written, res, sha, now, w)
    /\ UNCHANGED <<now, lookup>>
    /\ UNCHANGED <<callVars, samplingVars, runVars, routeVars, auditVars>>

\* getCachedScan(owner, repo, sha, provider, model); a failing read gives null
CacheRead(key, readOk) ==
    /\ lookup' = [key |-> key, at |-> now, seen |-> Len(written), readOk |-> readOk,
                  result |-> IF readOk THEN getCachedScan(store, key, now) ELSE NoResult]
    /\ UNCHANGED <<store, now, written>>
    /\ UNCHANGED <<callVars, samplingVars, runVars, routeVars, auditVars>>

\* time passes
Tick ==
    /\ now + TickDays <= MaxClock
    /\ now' = now + TickDays
    /\ UNCHANGED <<store, lookup, written>>
    /\ UNCHANGED <<callVars, samplingVars, runVars, routeVars, auditVars>>

CacheNext ==
    \/ \E res \in CacheReports, sha \in CacheShas \cup {NoSha}, w \in WriteOutcomes :
           CacheWrite(res, sha, w)
    \/ \E rd \in CacheReads : CacheRead(rd[1], rd[2])
    \/ Tick

SpecCache == CacheInit /\ [][CacheNext]_vars

(***************************************************************************)
(* The same streamed request sent again and again to one process, against  *)
(* a cache that starts empty.  The request names the provider's default    *)
(* model or another one; its analyzers return their lists and its planner  *)
(* an empty plan.  The clock may advance at any moment.                    *)
(***************************************************************************)
\* modelInput || getDefaultModelForProvider(provider)
RequestModels(provider) == {getDefaultModelForProvider(provider), "openai/gpt-4o"}

RepeatInit ==
    /\ SamplingIdle /\ RunsIdle /\ CallIdle
    /\ rpc = "request" /\ commitSha = NoSha
    /\ writer = "open"
    /\ forceRefresh = FALSE
    /\ reqProvider \in RequestProviders
    /\ reqModel \in RequestModels(reqProvider)
    /\ sse = <<>> /\ rejectedWrites = 0 /\ delivered = NoResult /\ response = NoResponse
    /\ AuditIdle
    /\ store = EmptyStore /\ written = <<>>
    /\ now = 0
    /\ lookup = NoLookup

\* the client posts the request again once the stream of the one before was
\* closed: a new writer, a new run
NewRequest ==
    /\ rpc = "closed"
    /\ Len(store.scans) < MaxScans
    /\ rpc' = "request" /\ commitSha' = NoSha
    /\ writer' = "open" /\ sse' = <<>> /\ rejectedWrites' = 0 /\ delivered' = NoResult
    /\ apc' = "idle" /\ prevProvider' = activeProvider
    /\ docsSnippets' = 0
    /\ agents' = [k \in 1..AgentCount |-> [st |-> "none", raw |-> NoRaw, how |-> None]]
    /\ completedAgents' = 0 /\ overtaken' = FALSE /\ join' = "pending"
    /\ suffixes' = [k \in 1..DrawLen |-> k]
    /\ plannerCalls' = 0 /\ issues' = <<>> /\ warnings' = <<>> /\ result' = NoResult
    /\ UNCHANGED <<forceRefresh, reqProvider, reqModel, response, activeProvider>>
    /\ UNCHANGED <<callVars, samplingVars, runVars, cacheVars>>

RepeatNext ==
    \/ ParseRequest
    \/ GetCommitSha
    \/ CacheLookup
    \/ Download
    \/ Extract
    \/ DocsFetch
    \/ \E k \in 1..AgentCount : AgentSettle(k, DirectList)
    \/ Synthesize
    \/ PlannerSettle(Returns(Arr(<<>>)))
    \/ CacheStore
    \/ NewRequest
    \/ Tick

SpecRepeat == RepeatInit /\ [][RepeatNext]_vars

(***************************************************************************)
(* Two runs of runFullAudit in one process (two requests being served at   *)
(* once).  Each run is followed through the steps that read or write the   *)
(* process-wide active provider: its entry, its inference calls, each of   *)
(* which resolves its model under the provider active when it is issued,   *)
(* and its finally block.  A run is suspended between its steps, so the    *)
(* steps of the two runs interleave.                                       *)
(***************************************************************************)
RunNames == {"A", "B"}

IdleRun(provider) ==
    [pc |-> "idle", provider |-> provider, prev |-> None,
     issued |-> 0, settled |-> 0, used |-> {}]

\* ai.generateObject: resolveModel reads the active provider when the call is made
issueCalls(run, n, active) ==
    [run EXCEPT !.issued = @ + n, !.used = IF n > 0 THEN @ \cup {active} ELSE @]

OverlapInit ==
    /\ runs \in [RunNames -> {IdleRun(p) : p \in Providers}]
    /\ SamplingIdle /\ RouteIdle /\ AuditIdle /\ CacheIdle /\ CallIdle

\* the variables of the single run followed elsewhere
singleRunVars == <<apc, prevProvider, docsSnippets, agents, completedAgents, overtaken,
                   join, suffixes, plannerCalls, issues, warnings, result>>

\* entry: prevProvider = getAIProvider(); setAIProvider(targetProvider); the
\* run then goes up to its first await
RunEnter(r) ==
    /\ runs[r].pc = "idle"
    /\ runs' = [runs EXCEPT ![r].pc = "docs", ![r].prev = activeProvider]
    /\ activeProvider' = runs[r].provider
    /\ UNCHANGED singleRunVars
    /\ UNCHANGED <<samplingVars, routeVars, cacheVars, callVars>>

\* after the Context7 lookup the limiter starts the first three analyzers
RunFanOut(r) ==
    /\ runs[r].pc = "docs"
    /\ runs' = [runs EXCEPT ![r] = [issueCalls(@, Concurrency, activeProvider)
                                       EXCEPT !.pc = "analyzing"]]
    /\ UNCHANGED auditVars
    /\ UNCHANGED <<samplingVars, routeVars, cacheVars, callVars>>

\* an analyzer call returns: the limiter starts the next queued analyzer, and
\* after the sixth the run merges and calls the planner
RunAgentReturns(r) ==
    /\ runs[r].pc \in {"analyzing", "thrown"}
    /\ runs[r].settled < runs[r].issued
    /\ LET queued1 == IF runs[r].issued < AgentCount THEN 1 ELSE 0
           last == runs[r].settled + 1 = AgentCount /\ runs[r].pc = "analyzing"
           next == issueCalls([runs[r] EXCEPT !.settled = @ + 1],
                              queued1 + (IF last THEN 1 ELSE 0), activeProvider)
       IN  runs' = [runs EXCEPT ![r] = [next EXCEPT !.pc = IF last THEN "planning" ELSE @]]
    /\ UNCHANGED auditVars
    /\ UNCHANGED <<samplingVars, routeVars, cacheVars, callVars>>

\* an analyzer call raises: Promise.all rejects, the finally block restores
\* the provider saved on entry, and the limiter goes on with its queue; the
\* limiter's continuation and the finally block are both scheduled by the
\* same rejection, so the next analyzer starts before or after the restore
RunAgentRaises(r) ==
    /\ runs[r].pc = "analyzing"
    /\ runs[r].settled < runs[r].issued
    /\ \E seen \in {activeProvider, runs[r].prev} :
           LET queued1 == IF runs[r].issued < AgentCount THEN 1 ELSE 0
               next == issueCalls([runs[r] EXCEPT !.settled = @ + 1], queued1, seen)
           IN  runs' = [runs EXCEPT ![r] = [next EXCEPT !.pc = "thrown"]]
    /\ activeProvider' = runs[r].prev
    /\ UNCHANGED singleRunVars
    /\ UNCHANGED <<samplingVars, routeVars, cacheVars, callVars>>

\* the planner call settles; returning or raising, the finally block
\* restores the provider saved on entry
RunPlannerSettles(r) ==
    /\ runs[r].pc = "planning"
    /\ runs' = [runs EXCEPT ![r].pc = "done"]
    /\ activeProvider' = runs[r].prev
    /\ UNCHANGED singleRunVars
    /\ UNCHANGED <<samplingVars, routeVars, cacheVars, callVars>>

OverlapNext ==
    \E r \in RunNames :
        \/ RunEnter(r)
        \/ RunFanOut(r)
        \/ RunAgentReturns(r)
        \/ RunAgentRaises(r)
        \/ RunPlannerSettles(r)

SpecOverlap == OverlapInit /\ [][OverlapNext]_vars

\* the stored reports a lookup is entitled to: written under the key of the
\* lookup, no longer than the maximum age before it
entitled(lk) ==
    {i \in 1..lk.seen :
        /\ written[i].sha = lk.key.sha
        /\ written[i].report.repo.owner = lk.key.owner
        /\ written[i].report.repo.repo = lk.key.name
        /\ written[i].report.provider = lk.key.provider
        /\ written[i].report.model = lk.key.model
        /\ written[i].at <= lk.at
        /\ written[i].at >= lk.at - MaxAgeDays}

\* C10: after cacheScanResult(report, revision) succeeded, getCachedScan with
\* the same owner, repo, revision, provider and model within maxAge returns a
\* report equal to the stored one.
C10_CacheRoundTrip ==
    (lookup.key # NoKey /\ lookup.readOk /\ entitled(lookup) # {}) =>
        \E i \in entitled(lookup) : lookup.result = written[i].report

\* the stored report a returned report was rebuilt from: the rows of the k-th
\* stored scan carry k in their ids
servedScan(res) == res.issues[1].id[2]

sameKey(w, key) ==
    /\ w.sha = key.sha
    /\ w.report.repo.owner = key.owner
    /\ w.report.repo.repo = key.name
    /\ w.report.provider = key.provider
    /\ w.report.model = key.model

\* C11: getCachedScan never returns a scan that was stored under another
\* revision, provider, model or (owner, repo) than the ones it is called with.
C11_KeyIsolation ==
    lookup.result # NoResult =>
        /\ servedScan(lookup.result) \in 1..lookup.seen
        /\ sameKey(written[servedScan(lookup.result)], lookup.key)
        /\ lookup.result.provider = lookup.key.provider
        /\ lookup.result.model = lookup.key.model
        /\ lookup.result.repo.owner = lookup.key.owner
        /\ lookup.result.repo.repo = lookup.key.name

\* a hit while the store also holds a scan that differs from the key in one part only
C11_Witness ==
    /\ lookup.result # NoResult
    /\ \E j \in 1..Len(written) :
          /\ ~sameKey(written[j], lookup.key)
          /\ \/ sameKey(written[j], [lookup.key EXCEPT !.sha = written[j].sha])
             \/ sameKey(written[j], [lookup.key EXCEPT !.name = written[j].report.repo.repo])
             \/ sameKey(written[j], [lookup.key EXCEPT !.provider = written[j].report.provider,
                                                       !.model = written[j].report.model])

\* the stored scans of the key of a lookup, whatever their age
storedFor(lk) == {i \in 1..lk.seen : sameKey(written[i], lk.key)}

\* C13: a lookup whose store answers returns absent when every scan stored for
\* its key was created more than maxAge before it, and otherwise returns a scan
\* of the key within maxAge than which none of them was created later.
C13_CacheExpiry ==
    (lookup.key # NoKey /\ lookup.readOk) =>
        IF \A i \in storedFor(lookup) : written[i].at < lookup.at - MaxAgeDays
        THEN lookup.result = NoResult
        ELSE /\ lookup.result # NoResult
             /\ servedScan(lookup.result) \in entitled(lookup)
             /\ \A i \in entitled(lookup) :
                    written[i].at <= written[servedScan(lookup.result)].at

\* two scans of the key within maxAge, created at different times, and a hit
C13_Witness ==
    /\ lookup.readOk
    /\ lookup.result # NoResult
    /\ \E i, j \in entitled(lookup) : written[i].at < written[j].at

\* the only scan of the key is older than maxAge and the lookup returned absent
C13_WitnessExpired ==
    /\ lookup.readOk
    /\ storedFor(lookup) # {}
    /\ entitled(lookup) = {}
    /\ lookup.result = NoResult

(***************************************************************************)
(* Claims about one streamed request and its run (Spec).                   *)
(***************************************************************************)
fulfilledDirectly(a) == a.st = "fulfilled" /\ a.how = "direct" /\ a.raw.kind = "array"

allSettled == \A k \in 1..AgentCount : agents[k].st \in {"fulfilled", "rejected"}

\* exactly one analyzer raised (and was not recovered), the other five returned lists
oneRaisedFiveLists ==
    /\ Cardinality({k \in 1..AgentCount : agents[k].st = "rejected"}) = 1
    /\ Cardinality({k \in 1..AgentCount : fulfilledDirectly(agents[k])}) = 5

\* the issues of a result that stem from analyzer k
findingsOf(res, k) == SelectSeq(res.issues, LAMBDA i : i.type = AgentTypes[k])

\* C1: when exactly one of the six analyzers raises and the other five return
\* lists, the run does not raise: it returns a report that holds the five
\* analyzers' findings, exactly one warning and stats.agents = 6.
C1_OneFailureTolerated ==
    (allSettled /\ oneRaisedFiveLists) =>
        /\ apc # "thrown"
        /\ \A i \in 1..Len(sse) : sse[i].type # "error"
        /\ apc = "returned" =>
              /\ \A k \in 1..AgentCount :
                    fulfilledDirectly(agents[k]) =>
                        Len(findingsOf(result, k)) = Len(agents[k].raw.items)
              /\ Len(result.warnings) = 1
              /\ result.stats.agents = 6

\* C4: at every moment at most 3 of the six analyzer invocations are in flight.
C4_BoundedFanOut == Cardinality(running(agents)) <= 3

\* the limiter is full while a task waits, after one task failed and one succeeded
C4_Witness ==
    /\ Cardinality(running(agents)) = 3
    /\ queued(agents) # {}
    /\ \E k \in 1..AgentCount : agents[k].st = "rejected"
    /\ \E k \in 1..AgentCount : agents[k].st = "fulfilled"

\* C5: the planner is never invoked before all six analyzers have settled and
\* their normalized outputs are merged into the issues list; no analyzer is in
\* flight once the planner has been called.
C5_PlannerAfterJoin ==
    plannerCalls > 0 =>
        /\ \A k \in 1..AgentCount : agents[k].st = "fulfilled"
        /\ apc = "planning" =>
              issues = attachDocs(
                  mergeIssues([k \in 1..AgentCount |-> agents[k].raw], suffixes).issues,
                  docsSnippets)

\* the planner is being awaited, after a run in which an analyzer raised and was unwrapped
C5_Witness ==
    /\ apc = "planning"
    /\ plannerCalls = 1
    /\ \E k \in 1..AgentCount : agents[k].how = "unwrapped"
    /\ Len(issues) >= 5

progressEvents == SelectSeq(sse, LAMBDA e : e.type = "progress")

\* C6: over one streamed request the progress value of each progress event is
\* at least the progress value of every earlier one.
C6_ProgressMonotone ==
    \A i, j \in 1..Len(progressEvents) :
        i < j => progressEvents[i].progress <= progressEvents[j].progress

isTerminal(e) == e.type = "error" \/ (e.type = "progress" /\ e.stage = "complete")

terminalCount == Cardinality({i \in 1..Len(sse) : isTerminal(sse[i])})

\* C7: a streamed request emits exactly one terminal event, a complete event or
\* an error event, and no progress event after it: nothing but the result
\* follows a terminal event on the stream, and a closed stream holds exactly one.
C7_OneTerminalEvent ==
    /\ \A i, j \in 1..Len(sse) :
          (i < j /\ isTerminal(sse[i])) => sse[j].type = "result"
    /\ terminalCount <= 1
    /\ (streaming /\ rpc = "closed") => terminalCount = 1

\* the run failed, the error event was sent and the stream closed, and analyzers
\* still in flight then reported their completion to the closed stream
C7_Witness ==
    /\ rpc = "closed" /\ streaming
    /\ sse # <<>> /\ sse[Len(sse)].type = "error"
    /\ rejectedWrites > 0
    /\ allSettled

\* an analyzer whose output was not obtained directly: it raised and the
\* wrapper unwrapped its text, or its raw output was not a list
notDirect(a) == a.st = "fulfilled" /\ (a.how = "unwrapped" \/ a.raw.kind # "array")

\* C8: whenever a run completes after an analyzer's output was not obtained
\* directly, the report's warnings hold a warning naming that analyzer.
C8_DegradationsExplained ==
    apc = "returned" =>
        \A k \in 1..AgentCount :
            notDirect(agents[k]) =>
                \E i \in 1..Len(result.warnings) : result.warnings[i].agent = AgentTypes[k]

\* C9: when the planner raises after the six analyzers succeeded, the run still
\* completes with a report instead of aborting.
C9_PlannerFailureContained ==
    (plannerCalls > 0 /\ \A k \in 1..AgentCount : agents[k].st = "fulfilled") =>
        /\ apc # "thrown"
        /\ \A i \in 1..Len(sse) : sse[i].type # "error"

noErrorEvent(log) == \A i \in 1..Len(log) : log[i].type # "error"

\* C12: with an unresolved revision getCachedScan returns absent and
\* cacheScanResult writes nothing; the streamed request goes from the revision
\* lookup straight to the download, never looks up nor stores, and when its run
\* returns it delivers the report.
C12_NoRevisionNoCaching ==
    [][ /\ getCachedScan(store', Key(Repo.owner, Repo.repo, NoSha, reqProvider', reqModel'),
                         now') = NoResult
        /\ cacheScanResult(store', PriorResult(reqProvider'), NoSha, now') = store'
        /\ commitSha' = NoSha =>
              /\ store' = store /\ written' = written /\ lookup' = lookup
              /\ rpc = "sha" => (rpc' = "download" /\ noErrorEvent(sse'))
              /\ (streaming /\ apc = "planning" /\ apc' = "returned") =>
                    /\ rpc' = "closed"
                    /\ delivered' = result'
                    /\ noErrorEvent(sse')
                    /\ sse'[Len(sse')].type = "result"
      ]_vars

\* a request whose revision did not resolve has delivered its report; the
\* earlier scan in the store was neither consulted nor joined by a new one
C12_Witness ==
    /\ commitSha = NoSha
    /\ rpc = "closed"
    /\ apc = "returned"
    /\ delivered = result /\ result # NoResult
    /\ lookup = NoLookup
    /\ Len(store.scans) = 1

\* C14: a failing read of getCachedScan yields absent and the request goes on
\* to the download; whatever the writes of cacheScanResult do, the request
\* then sends its report and closes; neither step emits an error event.
C14_CacheErrorsSwallowed ==
    [][ /\ rpc = "cache" =>
              /\ noErrorEvent(sse')
              /\ ~lookup'.readOk => (lookup'.result = NoResult /\ rpc' = "download")
        /\ rpc = "store" =>
              /\ noErrorEvent(sse')
              /\ rpc' = "closed"
              /\ delivered' = result
              /\ sse'[Len(sse')].type = "result"
      ]_vars

\* the read failed, the run's report was not stored, and the request has
\* delivered the report without an error event
C14_Witness ==
    /\ lookup.key # NoKey /\ ~lookup.readOk
    /\ commitSha # NoSha
    /\ rpc = "closed"
    /\ delivered = result /\ result # NoResult
    /\ Len(written) = lookup.seen
    /\ noErrorEvent(sse)

\* C15: in every report returned by runFullAudit no two issues have the same
\* id, whatever the random suffix generator gives.
C15_UniqueIds ==
    apc = "returned" =>
        \A i, j \in 1..Len(result.issues) :
            i # j => result.issues[i].id # result.issues[j].id

\* the stages of runFullAudit
AuditStages == {"heuristics", "sampling", "parsing", "context7", "analyzing",
                "synthesizing", "complete"}

noAuditStage(log) == \A i \in 1..Len(log) : log[i].stage \notin AuditStages

\* the message of the failure of the fetch step the request is in
fetchFailure(pc) == IF pc = "download" THEN TarballRequestFailed ELSE TarballTooLarge

\* C19: when the tarball request is answered with a status other than 200 or
\* the extraction exceeds the size ceiling, the request ends there: runFullAudit
\* was not entered and no of its stages was announced, the cache store is as it
\* was, and the caller has the failure message, as the last event of the stream
\* (an error event) when streaming and as a 500 response otherwise.
C19_FetchFailuresFatal ==
    [][ (rpc \in {"download", "extract"} /\ rpc' = "closed") =>
            /\ apc' = "idle" /\ plannerCalls' = 0
            /\ noAuditStage(sse')
            /\ store' = store /\ written' = written
            /\ delivered' = NoResult
            /\ streaming =>
                  /\ sse' = sse \o <<ErrorEv(fetchFailure(rpc))>>
                  /\ writer' = "closed"
                  /\ terminalCount' = 1
            /\ ~streaming => response' = ErrorResponse(500, fetchFailure(rpc))
      ]_vars

\* a streamed request ended on the size ceiling: the error event carrying the
\* message is the last of the stream, no run was started, nothing was stored
C19_Witness ==
    /\ rpc = "closed" /\ writer = "closed"
    /\ sse # <<>> /\ sse[Len(sse)] = ErrorEv(TarballTooLarge)
    /\ apc = "idle"
    /\ written = <<>>

\* a request that is not streamed ended on a refused tarball request: it is
\* answered 500 with the message, no run was started, nothing was stored
C19_WitnessResponse ==
    /\ rpc = "closed" /\ ~streaming
    /\ response = ErrorResponse(500, TarballRequestFailed)
    /\ apc = "idle"
    /\ written = <<>>

\* the place of an issue type in the order of the Promise.all array; the
\* synthetic finding comes after the six
agentIndex(t) ==
    IF \E k \in 1..AgentCount : AgentTypes[k] = t
    THEN CHOOSE k \in 1..AgentCount : AgentTypes[k] = t
    ELSE AgentCount + 1

\* the findings analyzer k gave, as they are to appear in the merged list
givenBy(k) ==
    LET list == normalizeAgentOutput(AgentTypes[k], agents[k].raw, <<>>).list
    IN  [i \in 1..Len(list) |->
            [type |-> AgentTypes[k], severity |-> severityOf(list[i]),
             title |-> titleOf(list[i])]]

typeSeverityTitle(iss) ==
    [i \in 1..Len(iss) |-> [type |-> iss[i].type, severity |-> iss[i].severity,
                            title |-> iss[i].title]]

\* C22: whatever the order in which the six analyzers completed, the merged
\* list holds the findings of each analyzer in the order it gave them, the
\* analyzers in the order ux, backend, db, security, performance, lint, each
\* with the references gathered, and the report returned is rendered from
\* that list.
C22_CompletionOrderIndependence ==
    apc \in {"planning", "returned"} =>
        /\ \A k \in 1..AgentCount :
              typeSeverityTitle(SelectSeq(issues, LAMBDA i : i.type = AgentTypes[k]))
                  = givenBy(k)
        /\ \A p, q \in 1..Len(issues) :
              p < q => agentIndex(issues[p].type) <= agentIndex(issues[q].type)
        /\ \A p \in 1..Len(issues) :
              issues[p].type # "general" => issues[p].docs = Min(docsSnippets, 3)
        /\ apc = "returned" =>
              /\ result.issues = issues
              /\ result.markdown = buildMarkdownReport(result)

\* a run returned after an analyzer had completed before one listed ahead of
\* it, one of them with two findings
C22_Witness ==
    /\ apc = "returned"
    /\ overtaken
    /\ \E k \in 1..AgentCount : Len(givenBy(k)) = 2
    /\ result.issues = issues

\* the places of the findings of type general in a list
generalAt(iss) == {i \in 1..Len(iss) : iss[i].type = "general"}

\* C24: the report returned holds a finding of type general if and only if its
\* warnings list is not empty, the warnings of the planner's output counted;
\* then there is exactly one, of severity low, and it is the last of issues.
C24_WarningsFinding ==
    apc = "returned" =>
        /\ (generalAt(result.issues) # {}) <=> (Len(result.warnings) > 0)
        /\ generalAt(result.issues) # {} =>
              /\ generalAt(result.issues) = {Len(result.issues)}
              /\ result.issues[Len(result.issues)].severity = "low"

\* the six analyzers returned lists and the planner's text gave the one
\* warning: the report ends with the finding of type general
C24_Witness ==
    /\ apc = "returned"
    /\ \A k \in 1..AgentCount : fulfilledDirectly(agents[k])
    /\ Len(result.warnings) = 1 /\ result.warnings[1].agent = "codemod"
    /\ generalAt(result.issues) = {Len(result.issues)}

\* a run without warnings returned a report without a finding of type general
C24_WitnessNone ==
    /\ apc = "returned"
    /\ result.warnings = <<>>
    /\ result.issues # <<>> /\ generalAt(result.issues) = {}

\* the progress events of the analyzing stage sent on an analyzer's completion
completionEvents ==
    SelectSeq(sse, LAMBDA e : e.type = "progress" /\ e.stage = "analyzing"
                              /\ e.progress > calculateProgress("analyzing", 0))

\* C28: once the six analyzers have produced an output, directly or by the
\* unwrapping of the error text, completedAgents is 6 and a streamed request
\* has sent one analyzing event per analyzer; the counter never exceeds 6 and
\* no step makes it smaller.
C28_CompletionAccounting ==
    /\ [](completedAgents <= AgentCount)
    /\ []((\A k \in 1..AgentCount : agents[k].st = "fulfilled") =>
             /\ completedAgents = AgentCount
             /\ streaming => Len(completionEvents) = AgentCount)
    /\ [][completedAgents' >= completedAgents]_vars

\* whether a request of this behaviour has stored its report under the
\* revision now resolved, not longer ago than the maximum age
storedBefore ==
    \E i \in 1..Len(written) :
        written[i].sha = commitSha /\ now - written[i].at <= MaxAgeDays

\* C29: once a streamed request has stored its report under a resolved
\* revision, the cache lookup of a later request with the same repository,
\* revision, provider and model, made without refresh and within the maximum
\* age, is a hit when its read succeeds: the request ends there with the stored
\* report and starts no download and no run, whatever model was named.
C29_RepeatRequestsHit ==
    [][ (rpc = "cache" /\ rpc' # "cache" /\ storedBefore /\ lookup'.readOk) =>
            /\ lookup'.result # NoResult
            /\ rpc' = "closed"
            /\ delivered' = lookup'.result
            /\ apc' = "idle"
      ]_vars

finished(run) == run.pc \in {"done", "thrown"}

\* C26: once every run that was started has finished, by returning or by
\* raising, the process-wide active provider is the one that was active before
\* the first of them started, also when two runs with different providers
\* overlapped.
C26_ProviderRestored ==
    ((\E r \in RunNames : finished(runs[r]))
     /\ \A r \in RunNames : runs[r].pc = "idle" \/ finished(runs[r]))
        => activeProvider = "vercel"

\* C27: every inference call a run has issued resolved its model under the
\* provider requested for that run.
C27_ProviderConsistent ==
    \A r \in RunNames : runs[r].used \subseteq {runs[r].provider}

====
